---- MODULE Spec2Model ----
(***************************************************************************)
(* Model of the VaultDue reminder engine                                   *)
(* (src/VaultDue/src/worker/services/notificationService.ts and the        *)
(* handlers of src/VaultDue/src/worker/index.ts that touch the same        *)
(* tables).                                                                *)
(*                                                                         *)
(* Calendar days are integers (day 0 is the first day observed).  A date   *)
(* string 'YYYY-MM-DD' parsed by `new Date(...)` is midnight UTC of that   *)
(* day, i.e. day * MsPerDay milliseconds.  Strings that the code inspects  *)
(* character by character (phone numbers, addresses) are sequences of      *)
(* one-character strings; the empty sequence is both '' and NULL, which    *)
(* the code never distinguishes (`x || ''`, `!x`).                         *)
(*                                                                         *)
(* A pass (one call of ReminderService.processReminders) is a process      *)
(* r \in Runs; every `await` on the database or on a transport is one      *)
(* atomic step of its process.                                             *)
(***************************************************************************)
EXTENDS Integers, Sequences, FiniteSets, TLC

(***************************************************************************)
(* Bounds of the model.                                                    *)
(***************************************************************************)
MaxRuns == 2        \* passes (scheduled or admin-triggered) per behaviour
MaxDay == 1         \* the clock runs over days 0..MaxDay
MaxUserOps == 1     \* renew / delete / test-reminder requests per behaviour
MaxFaults == 1      \* database errors and worker crashes per behaviour
MaxDaysUntilExpiry == 32   \* the policy functions are applied to -3..32 days
MaxPhoneDigits == 17       \* phone numbers of up to 17 digits are formatted

Runs == 1..MaxRuns
Docs == {1, 2}
Users == {"u1", "u2"}

NULL == "NULL"
NoRow == 0

MsPerDay == 86400000

\* the owner's documents expire the day before day 0 or a week after it
ExpDates == {-1, 7}

Phone == <<"8", "8", "5", "1", "6", "7", "0", "0", "5", "0">>
Email == <<"a", "@", "b">>
Empty == << >>

Digits == {"0", "1", "2", "3", "4", "5", "6", "7", "8", "9"}

\* what the provider does with a request: it answers with a success status
\* and a JSON body ("ok"), with a success status and a body that is not
\* JSON or breaks off ("ok_no_json"), with an error status and a JSON body
\* ("error"), or the request fails on the network ("throw")
ProviderResponses == {"ok", "ok_no_json", "error", "throw"}

\* response.ok
SuccessStatus(resp) == resp \in {"ok", "ok_no_json"}

\* `await response.json()` resolves
JsonBody(resp) == resp \in {"ok", "error"}

\* the bindings of Env the transports read; TRUE stands for a non-empty value
EnvKeys == {"WHATSAPP_ACCESS_TOKEN", "WHATSAPP_PHONE_NUMBER_ID",
            "TWILIO_ACCOUNT_SID", "TWILIO_AUTH_TOKEN", "TWILIO_PHONE_NUMBER",
            "RESEND_API_KEY"}

\* process-wide transport credentials (Env): every channel configured
EnvCreds == [k \in EnvKeys |-> TRUE]

VARIABLES
    documents,       \* table documents: id -> [user_id, expiration_date, status]
    users,           \* table users: id -> [email]
    user_profiles,   \* table user_profiles: user_id -> profile row or NoProfile
    reminders,       \* table reminders: set of rows
    nextId,          \* AUTOINCREMENT counter of reminders
    activity_logs,   \* table activity_logs: sequence of rows, in insertion order
    now,             \* the current calendar day (UTC)
    pc,              \* pc[r]: position of pass r
    loaded,          \* loaded[r]: `documents`, the joined rows pass r loaded
    idx,             \* idx[r]: position of the for-loop of pass r in loaded[r]
    today,           \* today[r]: `today` of pass r
    startDay,        \* history: the calendar day on which pass r was triggered
    rowId,           \* rowId[r]: reminderResult.meta.last_row_id
    calls,           \* history: every transport invocation of a pass, in order
    testCalls,       \* history: every transport invocation of a test send
    outcome,         \* history: outcome[r][d], how pass r left document d
    hadSent,         \* history: docs that had a sent row when pass r checked
    evals,           \* history: documents pass r entered, in order
    tests,           \* history: every sendTestReminder call and what it returned
    userOps,         \* number of user requests served so far
    faults,          \* number of database errors and crashes so far
    fn,              \* a function of the services under examination, with its arguments
    ret              \* what that function returned, once it has been applied

vars == <<documents, users, user_profiles, reminders, nextId, activity_logs,
          now, pc, loaded, idx, today, startDay, rowId, calls, testCalls, outcome, hadSent,
          evals, tests, userOps, faults, fn, ret>>

passVars == <<pc, loaded, idx, today, startDay, rowId, outcome, hadSent,
              evals>>
histVars == <<calls, testCalls, tests>>
fnVars == <<fn, ret>>
dataVars == <<documents, users, user_profiles>>

NoProfile == [preferred_reminder_channel |-> NULL,
              reminder_frequency |-> NULL,
              phone_number |-> Empty]

Profile(channel, phone) ==
    [preferred_reminder_channel |-> channel,
     reminder_frequency |-> "7_days",
     phone_number |-> phone]

\* The owner of the documents: the address book and preferences the passes
\* of one behaviour work with.  One setup per way sendNotification can go:
\* no profile row (email by default), a phone channel with and without a
\* phone number on file, and the email channel without an email address.
OwnerSetups ==
    { [email |-> Email, profile |-> NoProfile],
      [email |-> Email, profile |-> Profile("whatsapp", Phone)],
      [email |-> Email, profile |-> Profile("whatsapp", Empty)],
      [email |-> Email, profile |-> Profile("sms", Phone)],
      [email |-> Empty, profile |-> Profile("email", Phone)] }

(***************************************************************************)
(* Reminder policy                                                         *)
(***************************************************************************)
CeilDiv(a, b) == -((-a) \div b)

\* Math.ceil((expirationDate.getTime() - todayDate.getTime()) / 86400000)
DaysUntilExpiry(expiration_date, day) ==
    CeilDiv(expiration_date * MsPerDay - day * MsPerDay, MsPerDay)

\* Variant of sendTestReminder's computation that rounds down.
TestDaysUntilExpiryFloor(expiration_date, day, msOfDay) ==
    (expiration_date * MsPerDay - (day * MsPerDay + msOfDay)) \div MsPerDay

\* sendTestReminder: `today = new Date()` is the current instant, msOfDay
\* milliseconds into the calendar day;
\* Math.ceil((expirationDate.getTime() - today.getTime()) / 86400000)
TestDaysUntilExpiry(expiration_date, day, msOfDay) ==
    CeilDiv(expiration_date * MsPerDay - (day * MsPerDay + msOfDay), MsPerDay)

ReminderDays(frequency) ==
    CASE frequency = "30_days" -> {30, 14, 7, 3, 1, 0}
      [] frequency = "14_days" -> {14, 7, 3, 1, 0}
      [] frequency = "7_days"  -> {7, 3, 1, 0}
      [] frequency = "3_days"  -> {3, 1, 0}
      [] frequency = "1_day"   -> {1, 0}
      [] OTHER                 -> {30, 14, 7, 3, 1, 0}

\* members every JavaScript object inherits from Object.prototype: for these
\* keys `reminderDays[frequency]` is neither an own array nor undefined
ObjectPrototypeKeys ==
    {"constructor", "__proto__", "toString", "toLocaleString", "valueOf",
     "hasOwnProperty", "isPrototypeOf", "propertyIsEnumerable"}

\* const frequency = doc.reminder_frequency || '30_days'
Frequency(doc) ==
    IF doc.reminder_frequency \in {NULL, ""} THEN "30_days"
    ELSE doc.reminder_frequency

\* `daysToRemind.includes(...)` on an inherited member, which is truthy and
\* has no `includes`, throws a TypeError
ShouldSendReminderThrows(doc, daysUntilExpiry) ==
    /\ daysUntilExpiry >= 0
    /\ Frequency(doc) \in ObjectPrototypeKeys

\* Variant without the `daysUntilExpiry < 0` case.
ShouldSendReminderThresholdsOnly(doc, daysUntilExpiry) ==
    daysUntilExpiry \in ReminderDays(Frequency(doc))

\* the boolean shouldSendReminder returns when it does not throw
ShouldSendReminder(doc, daysUntilExpiry) ==
    IF daysUntilExpiry < 0 THEN TRUE
    ELSE daysUntilExpiry \in ReminderDays(Frequency(doc))

\* Variant with the tier boundaries exclusive (`<` for `<=`).
GetReminderTypeExclusive(daysUntilExpiry) ==
    IF daysUntilExpiry < 0 THEN "expired"
    ELSE IF daysUntilExpiry = 0 THEN "expires_today"
    ELSE IF daysUntilExpiry < 3 THEN "expires_soon"
    ELSE IF daysUntilExpiry < 7 THEN "expires_week"
    ELSE IF daysUntilExpiry < 14 THEN "expires_two_weeks"
    ELSE "expires_month"

GetReminderType(daysUntilExpiry) ==
    IF daysUntilExpiry < 0 THEN "expired"
    ELSE IF daysUntilExpiry = 0 THEN "expires_today"
    ELSE IF daysUntilExpiry <= 3 THEN "expires_soon"
    ELSE IF daysUntilExpiry <= 7 THEN "expires_week"
    ELSE IF daysUntilExpiry <= 14 THEN "expires_two_weeks"
    ELSE "expires_month"

(***************************************************************************)
(* Notification transport                                                  *)
(***************************************************************************)
IsDigit(c) == c \in Digits

\* Variant that strips any leading zero instead of a leading `00`.
FormatPhoneNumberAnyZero(phoneNumber) ==
    IF phoneNumber = Empty THEN Empty
    ELSE LET nondigitsRemoved == SelectSeq(phoneNumber, IsDigit)
             prefixRemoved ==
                 IF Len(nondigitsRemoved) >= 1 /\ nondigitsRemoved[1] = "0"
                 THEN SubSeq(nondigitsRemoved, 2, Len(nondigitsRemoved))
                 ELSE nondigitsRemoved
             cleaned == IF Len(prefixRemoved) = 10
                        THEN <<"9", "1">> \o prefixRemoved
                        ELSE prefixRemoved
         IN  IF Len(cleaned) < 10 \/ Len(cleaned) > 15 THEN Empty
             ELSE cleaned

FormatPhoneNumber(phoneNumber) ==
    IF phoneNumber = Empty THEN Empty
    ELSE LET nondigitsRemoved == SelectSeq(phoneNumber, IsDigit)
             \* /^(\+|00)/ on a digits-only string can only match '00'
             prefixRemoved ==
                 IF Len(nondigitsRemoved) >= 2 /\ nondigitsRemoved[1] = "0"
                    /\ nondigitsRemoved[2] = "0"
                 THEN SubSeq(nondigitsRemoved, 3, Len(nondigitsRemoved))
                 ELSE nondigitsRemoved
             cleaned == IF Len(prefixRemoved) = 10
                        THEN <<"9", "1">> \o prefixRemoved
                        ELSE prefixRemoved
         IN  IF Len(cleaned) < 10 \/ Len(cleaned) > 15 THEN Empty
             ELSE cleaned

\* Each channel send is wrapped in try/catch: it resolves to a boolean and
\* never throws, whatever the provider does (resp).  `fetched` tells whether
\* the send got as far as its network request.
NoRequest == [ok |-> FALSE, threw |-> FALSE, fetched |-> FALSE]

\* Variant without the try/catch around the request: a network error
\* propagates to the caller.
FetchUncaught(resp) ==
    [ok |-> (resp = "ok"), threw |-> (resp \in {"throw", "ok_no_json"}),
     fetched |-> TRUE]

\* `await fetch(...)`, then `await response.json()`, then
\* `if (!response.ok) return false`, all inside try: a rejected fetch and a
\* rejected response.json() both end in the catch block, which returns false
Fetch(resp) ==
    [ok |-> IF resp = "throw" THEN FALSE
            ELSE IF ~JsonBody(resp) THEN FALSE
            ELSE SuccessStatus(resp),
     threw |-> FALSE, fetched |-> TRUE]

SendWhatsAppNotification(env, to, resp) ==
    IF ~env["WHATSAPP_ACCESS_TOKEN"] \/ ~env["WHATSAPP_PHONE_NUMBER_ID"]
    THEN NoRequest
    ELSE IF FormatPhoneNumber(to) = Empty THEN NoRequest
    ELSE Fetch(resp)

SendSMSNotification(env, to, resp) ==
    IF ~env["TWILIO_ACCOUNT_SID"] \/ ~env["TWILIO_AUTH_TOKEN"]
       \/ ~env["TWILIO_PHONE_NUMBER"]
    THEN NoRequest
    ELSE IF FormatPhoneNumber(to) = Empty THEN NoRequest
    ELSE Fetch(resp)

SendEmailNotification(env, to, resp) ==
    IF ~env["RESEND_API_KEY"] THEN NoRequest
    ELSE Fetch(resp)

\* Variant whose switch has no `case 'sms'`: only whatsapp goes to the phone.
GetNotificationAddressWhatsAppOnly(doc, channel) ==
    IF channel = "whatsapp" THEN doc.phone_number
    ELSE doc.email

\* ReminderService.getNotificationAddress
GetNotificationAddress(doc, channel) ==
    IF channel \in {"whatsapp", "sms"} THEN doc.phone_number
    ELSE doc.email

\* one transport invocation and what it resolved to
Attempt(channel, to, res) ==
    [channel |-> channel, to |-> to, ok |-> res.ok, threw |-> res.threw]

\* Variant without the `if (!payload.to) return false` in front of the switch.
SendNotificationNoAddressCheck(doc, resp1, resp2) ==
    LET channel == IF doc.preferred_reminder_channel \in {NULL, ""}
                   THEN "email"
                   ELSE doc.preferred_reminder_channel
        to == GetNotificationAddress(doc, channel)
        first ==
            IF channel = "whatsapp" THEN
                IF to = Empty
                THEN Attempt("email", doc.email,
                         SendEmailNotification(EnvCreds, doc.email, resp1))
                ELSE Attempt("whatsapp", to,
                         SendWhatsAppNotification(EnvCreds, to, resp1))
            ELSE IF channel = "sms" THEN
                Attempt("sms", to, SendSMSNotification(EnvCreds, to, resp1))
            ELSE
                Attempt("email", to, SendEmailNotification(EnvCreds, to, resp1))
    IN  [calls |-> <<first>>, result |-> first.ok]

\* Variant that tries the chosen channel a second time when the first
\* invocation resolved to false.
SendNotificationRetriesChannel(doc, resp1, resp2) ==
    LET channel == IF doc.preferred_reminder_channel \in {NULL, ""}
                   THEN "email"
                   ELSE doc.preferred_reminder_channel
        to == GetNotificationAddress(doc, channel)
        Invoke(resp) ==
            IF channel = "whatsapp" THEN
                Attempt("whatsapp", to,
                        SendWhatsAppNotification(EnvCreds, to, resp))
            ELSE IF channel = "sms" THEN
                Attempt("sms", to, SendSMSNotification(EnvCreds, to, resp))
            ELSE
                Attempt("email", to, SendEmailNotification(EnvCreds, to, resp))
    IN  IF to = Empty THEN [calls |-> << >>, result |-> FALSE]
        ELSE IF Invoke(resp1).ok
        THEN [calls |-> <<Invoke(resp1)>>, result |-> TRUE]
        ELSE [calls |-> <<Invoke(resp1), Invoke(resp2)>>,
              result |-> Invoke(resp2).ok]

\* ReminderService.sendNotification: the transport invocations it makes,
\* in order, and the boolean it returns.  resp1 and resp2 are the provider's
\* answers to the first and (if any) second invocation.
SendNotification(doc, resp1, resp2) ==
    LET channel == IF doc.preferred_reminder_channel \in {NULL, ""}
                   THEN "email"
                   ELSE doc.preferred_reminder_channel
        to == GetNotificationAddress(doc, channel)
    IN  IF to = Empty THEN [calls |-> << >>, result |-> FALSE]
        ELSE
          LET first ==
                IF channel = "whatsapp" THEN
                    IF to = Empty
                    THEN Attempt("email", doc.email,
                             SendEmailNotification(EnvCreds, doc.email, resp1))
                    ELSE Attempt("whatsapp", to,
                             SendWhatsAppNotification(EnvCreds, to, resp1))
                ELSE IF channel = "sms" THEN
                    Attempt("sms", to, SendSMSNotification(EnvCreds, to, resp1))
                ELSE
                    Attempt("email", to, SendEmailNotification(EnvCreds, to, resp1))
          IN  IF ~first.threw
              THEN [calls |-> <<first>>, result |-> first.ok]
              ELSE \* catch (error): fallback to email
                   IF channel # "email" /\ doc.email # Empty
                   THEN LET second == Attempt("email", doc.email,
                               SendEmailNotification(EnvCreds, doc.email, resp2))
                        IN  [calls |-> <<first, second>>, result |-> second.ok]
                   ELSE [calls |-> <<first>>, result |-> FALSE]

(***************************************************************************)
(* Message texts.  A message is modelled by the parts that vary: which of  *)
(* the template literals was returned (named by its fixed opening words),  *)
(* the day count interpolated into it, and the leading emoji or priority   *)
(* tag.  Title and formatted date are interpolated unchanged in every      *)
(* template.                                                               *)
(***************************************************************************)
Abs(n) == IF n < 0 THEN -n ELSE n

\* NotificationService.formatWhatsAppMessage
FormatWhatsAppMessage(payload) ==
    LET urgencyEmoji == IF payload.isCritical THEN "rotating light"
                        ELSE "clipboard"
        days == payload.daysUntilExpiry
    IN  IF days < 0
        THEN [lead |-> urgencyEmoji, text |-> "*EXPIRED DOCUMENT ALERT*",
              days |-> Abs(days)]
        ELSE IF days = 0
        THEN [lead |-> urgencyEmoji, text |-> "*DOCUMENT EXPIRES TODAY*"]
        ELSE IF days = 1
        THEN [lead |-> urgencyEmoji, text |-> "*DOCUMENT EXPIRES TOMORROW*"]
        ELSE [lead |-> urgencyEmoji, text |-> "*DOCUMENT EXPIRY REMINDER*",
              days |-> days]

\* NotificationService.formatSMSMessage
FormatSMSMessage(payload) ==
    LET days == payload.daysUntilExpiry
    IN  IF days < 0
        THEN [lead |-> "VaultDue Alert:", text |-> "expired N day(s) ago",
              days |-> Abs(days)]
        ELSE IF days = 0
        THEN [lead |-> "VaultDue Alert:", text |-> "expires TODAY"]
        ELSE IF days = 1
        THEN [lead |-> "VaultDue Reminder:", text |-> "expires tomorrow"]
        ELSE [lead |-> "VaultDue Reminder:", text |-> "expires in N days",
              days |-> days]

\* Variant whose first test is `daysUntilExpiry <= 0`.
GetEmailSubjectExpiredAtZero(payload) ==
    LET priority == IF payload.isCritical THEN "[CRITICAL] " ELSE ""
        days == payload.daysUntilExpiry
    IN  IF days <= 0
        THEN [lead |-> priority, text |-> "EXPIRED: - Action Required"]
        ELSE IF days = 1
        THEN [lead |-> priority, text |-> "EXPIRES TOMORROW: - Reminder"]
        ELSE [lead |-> priority, text |-> "Reminder: expires in N days",
              days |-> days]

\* NotificationService.getEmailSubject
GetEmailSubject(payload) ==
    LET priority == IF payload.isCritical THEN "[CRITICAL] " ELSE ""
        days == payload.daysUntilExpiry
    IN  IF days < 0
        THEN [lead |-> priority, text |-> "EXPIRED: - Action Required"]
        ELSE IF days = 0
        THEN [lead |-> priority,
              text |-> "EXPIRES TODAY: - Immediate Action Needed"]
        ELSE IF days = 1
        THEN [lead |-> priority, text |-> "EXPIRES TOMORROW: - Reminder"]
        ELSE [lead |-> priority, text |-> "Reminder: expires in N days",
              days |-> days]

(***************************************************************************)
(* Database queries                                                        *)
(***************************************************************************)
RECURSIVE SetToSeq(_)
\* rows in id order (the order SQLite scans the documents table)
SetToSeq(S) ==
    IF S = {} THEN << >>
    ELSE LET m == CHOOSE x \in S : \A y \in S : x <= y
         IN  <<m>> \o SetToSeq(S \ {m})

\* documents d JOIN users u LEFT JOIN user_profiles p, one row of the result
JoinedRow(d) ==
    LET u == documents[d].user_id
    IN  [id |-> d,
         user_id |-> u,
         expiration_date |-> documents[d].expiration_date,
         status |-> documents[d].status,
         email |-> users[u].email,
         preferred_reminder_channel |-> user_profiles[u].preferred_reminder_channel,
         reminder_frequency |-> user_profiles[u].reminder_frequency,
         phone_number |-> user_profiles[u].phone_number]

Exists(d) == documents[d].status # "deleted"

\* Variant of the candidate query without `d.status = 'active'`.
ActiveDocumentsAnyStatus ==
    LET ids == SetToSeq({d \in Docs : Exists(d)})
    IN  [i \in 1..Len(ids) |-> JoinedRow(ids[i])]

\* SELECT ... WHERE d.status = 'active' AND d.expiration_date IS NOT NULL
ActiveDocuments ==
    LET ids == SetToSeq({d \in Docs : documents[d].status = "active"})
    IN  [i \in 1..Len(ids) |-> JoinedRow(ids[i])]

\* Variants of the dedup query with a plausible slip each: the flag tested
\* the wrong way round, the query dropped, the flag not tested at all.
ExistingRemindersUnsent(d, date) ==
    {row \in reminders : row.document_id = d /\ row.reminder_date = date
                         /\ ~row.is_sent}

ExistingRemindersNone(d, date) == {}

ExistingRemindersAnyRow(d, date) ==
    {row \in reminders : row.document_id = d /\ row.reminder_date = date}

ExistingRemindersOtherDay(d, date) ==
    {row \in reminders : row.document_id = d /\ row.reminder_date = date + 1
                         /\ row.is_sent}

\* SELECT id FROM reminders WHERE document_id = ? AND reminder_date = ? AND is_sent = 1
ExistingReminders(d, date) ==
    {row \in reminders : row.document_id = d /\ row.reminder_date = date
                         /\ row.is_sent}

\* no function under examination: the engine itself runs
NoCall == [name |-> "none"]
NotApplied == [done |-> FALSE]

\* the documents table at the start: both documents belong to u1, document
\* 1 is active, document 2 is active or was renewed before the first pass
InitialDocuments ==
    {t \in [Docs -> [user_id : {"u1"}, expiration_date : ExpDates,
                     status : {"active", "renewed"}]] :
        t[1].status = "active"}

\* empty reminder and log tables, no pass started, day 0
IdleEngine ==
    /\ reminders = {}
    /\ nextId = 1
    /\ activity_logs = << >>
    /\ now = 0
    /\ pc = [r \in Runs |-> "idle"]
    /\ loaded = [r \in Runs |-> << >>]
    /\ idx = [r \in Runs |-> 0]
    /\ today = [r \in Runs |-> 0]
    /\ startDay = [r \in Runs |-> 0]
    /\ rowId = [r \in Runs |-> NoRow]
    /\ calls = << >>
    /\ testCalls = << >>
    /\ tests = << >>
    /\ outcome = [r \in Runs |-> [d \in Docs |-> "none"]]
    /\ hadSent = [r \in Runs |-> {}]
    /\ evals = [r \in Runs |-> << >>]
    /\ userOps = 0
    /\ faults = 0

(***************************************************************************)
(* Initial state: two documents of user u1, no reminder yet.               *)
(***************************************************************************)
Init ==
    /\ documents \in InitialDocuments
    /\ \E o \in OwnerSetups :
         /\ users = [u \in Users |->
                        [email |-> IF u = "u1" THEN o.email ELSE Email]]
         /\ user_profiles = [u \in Users |->
                        IF u = "u1" THEN o.profile ELSE NoProfile]
    /\ IdleEngine
    /\ fn = NoCall
    /\ ret = NotApplied

(***************************************************************************)
(* A pass: processReminders and processDocumentReminder                    *)
(***************************************************************************)
Running(r) == pc[r] \in {"check", "insert", "send", "mark", "log"}

\* the document the for-loop of pass r is at
Doc(r) == loaded[r][idx[r]]

\* a sent row for (d, date) is in the table (read off the table itself)
SentRowExists(d, date) ==
    \E row \in reminders : row.document_id = d /\ row.reminder_date = date
                           /\ row.is_sent

ErrorOutcomes ==
    {"policy_threw", "check_threw", "insert_failed", "mark_threw", "log_threw"}

\* Variant without the try/catch of processDocumentReminder: an error while
\* processing one document reaches the catch of processReminders, which ends
\* the pass.
NextDocumentAbortOnError(r, how) ==
    /\ outcome' = [outcome EXCEPT ![r][Doc(r).id] = how]
    /\ idx' = [idx EXCEPT ![r] = IF how \in ErrorOutcomes THEN idx[r]
                                  ELSE idx[r] + 1]
    /\ pc' = [pc EXCEPT ![r] = IF how \in ErrorOutcomes
                                   \/ idx[r] + 1 > Len(loaded[r])
                                THEN "done" ELSE "check"]
    /\ rowId' = [rowId EXCEPT ![r] = NoRow]

\* processDocumentReminder returned (or its catch swallowed an error):
\* the for-loop moves on to the next document, or the pass completes
NextDocument(r, how) ==
    /\ outcome' = [outcome EXCEPT ![r][Doc(r).id] = how]
    /\ idx' = [idx EXCEPT ![r] = idx[r] + 1]
    /\ pc' = [pc EXCEPT ![r] = IF idx[r] + 1 > Len(loaded[r]) THEN "done"
                                ELSE "check"]
    /\ rowId' = [rowId EXCEPT ![r] = NoRow]

\* the external scheduler serializes passes: a pass starts only when no
\* other pass is in progress (runs are started in the order 1, 2, ...)
Serialized(r) ==
    /\ \A q \in Runs : q # r => /\ ~Running(q)
                                  /\ pc[q] \notin {"loading", "hung_send"}
    /\ \A q \in Runs : q < r => pc[q] # "idle"

\* the trigger calls processReminders, which sends the candidate query
TriggerPass(r) ==
    /\ pc[r] = "idle"
    /\ Serialized(r)
    /\ pc' = [pc EXCEPT ![r] = "loading"]
    /\ startDay' = [startDay EXCEPT ![r] = now]
    /\ UNCHANGED <<fnVars, dataVars, reminders, nextId, activity_logs, now,
                   loaded, idx, today, rowId, histVars, outcome, hadSent, evals,
                   userOps, faults>>

\* the candidate query succeeded; `today` is taken once, right after it
LoadDocuments(r) ==
    /\ pc[r] = "loading"
    /\ loaded' = [loaded EXCEPT ![r] = ActiveDocuments]
    /\ today' = [today EXCEPT ![r] = now]
    /\ idx' = [idx EXCEPT ![r] = 1]
    /\ pc' = [pc EXCEPT ![r] = IF Len(ActiveDocuments) = 0 THEN "done"
                                ELSE "check"]
    /\ UNCHANGED <<fnVars, dataVars, reminders, nextId, activity_logs, now,
                   startDay, rowId, histVars, outcome, hadSent, evals, userOps,
                   faults>>

\* Variant without the try/catch of processReminders (and of
\* handleScheduledReminders): the error of the candidate query propagates.
LoadThrowsUncaught(r) ==
    /\ pc[r] = "loading"
    /\ faults < MaxFaults
    /\ faults' = faults + 1
    /\ pc' = [pc EXCEPT ![r] = "threw"]
    /\ UNCHANGED <<fnVars, dataVars, reminders, nextId, activity_logs, now, loaded,
                   idx, today, startDay, rowId, histVars, outcome, hadSent, evals,
                   userOps>>

\* the candidate query threw: caught by processReminders, the pass ends
LoadThrows(r) ==
    /\ pc[r] = "loading"
    /\ faults < MaxFaults
    /\ faults' = faults + 1
    /\ pc' = [pc EXCEPT ![r] = "load_failed"]
    /\ UNCHANGED <<fnVars, dataVars, reminders, nextId, activity_logs, now, loaded,
                   idx, today, startDay, rowId, histVars, outcome, hadSent, evals, userOps>>

\* processDocumentReminder up to and including the dedup query
CheckDocument(r) ==
    /\ pc[r] = "check"
    /\ LET doc == Doc(r)
           daysUntilExpiry == DaysUntilExpiry(doc.expiration_date, today[r])
       IN  /\ evals' = [evals EXCEPT ![r] = Append(@, doc.id)]
           /\ IF ShouldSendReminderThrows(doc, daysUntilExpiry)
              THEN /\ NextDocument(r, "policy_threw")
                   /\ UNCHANGED <<hadSent, faults>>
              ELSE IF ~ShouldSendReminder(doc, daysUntilExpiry)
              THEN /\ NextDocument(r, "not_due")
                   /\ UNCHANGED <<hadSent, faults>>
              ELSE /\ hadSent' = [hadSent EXCEPT ![r] =
                          IF SentRowExists(doc.id, today[r])
                          THEN @ \cup {doc.id} ELSE @]
                   /\ \/ /\ faults < MaxFaults       \* the query threw
                         /\ faults' = faults + 1
                         /\ NextDocument(r, "check_threw")
                      \/ /\ ExistingReminders(doc.id, today[r]) # {}
                         /\ NextDocument(r, "already_sent")
                         /\ UNCHANGED faults
                      \/ /\ ExistingReminders(doc.id, today[r]) = {}
                         /\ pc' = [pc EXCEPT ![r] = "insert"]
                         /\ UNCHANGED <<outcome, idx, rowId, faults>>
    /\ UNCHANGED <<fnVars, dataVars, reminders, nextId, activity_logs, now, loaded,
                   today, startDay, histVars, userOps>>


\* Variant that dates the row with the day of the insert.
NewReminderDatedAtInsert(r) ==
    LET doc == Doc(r)
    IN  [id |-> nextId,
         document_id |-> doc.id,
         user_id |-> doc.user_id,
         reminder_date |-> now,
         reminder_type |-> GetReminderType(
                               DaysUntilExpiry(doc.expiration_date, now)),
         is_sent |-> FALSE,
         run |-> r]

\* Variant that takes over an unsent row of the same document and day
\* when there is one, instead of inserting.
NewReminderReusingUnsent(r) ==
    LET doc == Doc(r)
        unsent == {row \in reminders : /\ row.document_id = doc.id
                                       /\ row.reminder_date = today[r]
                                       /\ ~row.is_sent}
    IN  IF unsent # {} THEN CHOOSE row \in unsent : TRUE
        ELSE [id |-> nextId,
              document_id |-> doc.id,
              user_id |-> doc.user_id,
              reminder_date |-> today[r],
              reminder_type |-> GetReminderType(
                                  DaysUntilExpiry(doc.expiration_date, today[r])),
              is_sent |-> FALSE,
              run |-> r]

\* the row of the INSERT; `run` tells which pass inserted the row
NewReminder(r) ==
    LET doc == Doc(r)
    IN  [id |-> nextId,
         document_id |-> doc.id,
         user_id |-> doc.user_id,
         reminder_date |-> today[r],
         reminder_type |-> GetReminderType(
                               DaysUntilExpiry(doc.expiration_date, today[r])),
         is_sent |-> FALSE,
         run |-> r]

\* INSERT INTO reminders (..., is_sent = 0)
InsertReminder(r) ==
    /\ pc[r] = "insert"
    /\ reminders' = reminders \cup {NewReminder(r)}
    /\ nextId' = nextId + 1
    /\ rowId' = [rowId EXCEPT ![r] = nextId]
    /\ pc' = [pc EXCEPT ![r] = "send"]
    /\ UNCHANGED <<fnVars, dataVars, activity_logs, now, loaded, idx, today, startDay, histVars,
                   outcome, hadSent, evals, userOps, faults>>

\* the insert threw or reported success = false: no row, next document
InsertFails(r) ==
    /\ pc[r] = "insert"
    /\ faults < MaxFaults
    /\ faults' = faults + 1
    /\ NextDocument(r, "insert_failed")
    /\ UNCHANGED <<fnVars, dataVars, reminders, nextId, activity_logs, now, loaded,
                   today, startDay, histVars, hadSent, evals, userOps>>

\* the history entries of one sendNotification
Tagged(cs, r, d, day, row) ==
    [i \in 1..Len(cs) |-> [run |-> r, doc |-> d, day |-> day, row |-> row,
                           channel |-> cs[i].channel, to |-> cs[i].to,
                           ok |-> cs[i].ok]]

\* Variant that marks the row whatever sendNotification returned.
AfterSendIgnoresResult(r, sent) ==
    /\ pc' = [pc EXCEPT ![r] = "mark"]
    /\ UNCHANGED <<outcome, idx, rowId>>

\* Variant in which a failed delivery ends the pass.
AfterSendAbortsOnFailure(r, sent) ==
    IF sent
    THEN /\ pc' = [pc EXCEPT ![r] = "mark"]
         /\ UNCHANGED <<outcome, idx, rowId>>
    ELSE /\ outcome' = [outcome EXCEPT ![r][Doc(r).id] = "send_failed"]
         /\ pc' = [pc EXCEPT ![r] = "done"]
         /\ UNCHANGED <<idx, rowId>>

\* `if (sent)`: what processDocumentReminder does with sendNotification's result
AfterSend(r, sent) ==
    IF sent
    THEN /\ pc' = [pc EXCEPT ![r] = "mark"]
         /\ UNCHANGED <<outcome, idx, rowId>>
    ELSE NextDocument(r, "send_failed")

\* const sent = await this.sendNotification(doc, daysUntilExpiry)
Send(r) ==
    /\ pc[r] = "send"
    /\ \E resp1 \in ProviderResponses, resp2 \in ProviderResponses :
         LET res == SendNotification(Doc(r), resp1, resp2)
         IN  /\ calls' = calls \o Tagged(res.calls, r, Doc(r).id, today[r],
                                         rowId[r])
             /\ AfterSend(r, res.result)
    /\ UNCHANGED <<fnVars, dataVars, reminders, nextId, activity_logs, now, loaded,
                   today, startDay, testCalls, tests, hadSent, evals, userOps, faults>>

\* the provider never answers: no transport passes a timeout or an abort
\* signal to fetch, so the await inside sendNotification never resolves and
\* the for-loop of the pass stays at this document
SendHangs(r) ==
    /\ pc[r] = "send"
    /\ pc' = [pc EXCEPT ![r] = "hung_send"]
    /\ UNCHANGED <<fnVars, dataVars, reminders, nextId, activity_logs, now,
                   loaded, idx, today, startDay, rowId, histVars, outcome,
                   hadSent, evals, userOps, faults>>

\* Variant that also stamps the document when it marks the row.
MarkedRowsAndDocument(r) ==
    /\ reminders' = {IF row.id = rowId[r] THEN [row EXCEPT !.is_sent = TRUE]
                     ELSE row : row \in reminders}
    /\ documents' = [documents EXCEPT ![Doc(r).id] =
           [user_id |-> @.user_id, expiration_date |-> @.expiration_date,
            status |-> @.status, next_reminder_date |-> today[r] + 1]]
    /\ UNCHANGED <<users, user_profiles>>

\* Variant whose update is keyed on (document_id, reminder_date) instead
\* of the id of the inserted row.
MarkedRowsOfDocumentAndDay(r) ==
    /\ reminders' = {IF row.document_id = Doc(r).id
                        /\ row.reminder_date = today[r]
                     THEN [row EXCEPT !.is_sent = TRUE]
                     ELSE row : row \in reminders}
    /\ UNCHANGED dataVars

\* Variant whose update matches no row.
MarkedRowsNone(r) == UNCHANGED <<reminders, dataVars>>

\* what the update of a delivered reminder writes: the row of this pass
MarkedRows(r) ==
    /\ reminders' = {IF row.id = rowId[r] THEN [row EXCEPT !.is_sent = TRUE]
                     ELSE row : row \in reminders}
    /\ UNCHANGED dataVars

\* UPDATE reminders SET is_sent = 1 WHERE id = last_row_id
MarkSent(r) ==
    /\ pc[r] = "mark"
    /\ MarkedRows(r)
    /\ pc' = [pc EXCEPT ![r] = "log"]
    /\ UNCHANGED <<fnVars, nextId, activity_logs, now, loaded, idx, today, startDay,
                   rowId, histVars, outcome, hadSent, evals, userOps, faults>>

MarkThrows(r) ==
    /\ pc[r] = "mark"
    /\ faults < MaxFaults
    /\ faults' = faults + 1
    /\ NextDocument(r, "mark_threw")
    /\ UNCHANGED <<fnVars, dataVars, reminders, nextId, activity_logs, now, loaded,
                   today, startDay, histVars, hadSent, evals, userOps>>

LogEntry(action, user, d, r) ==
    [action_type |-> action, user_id |-> user, related_document_id |-> d,
     run |-> r]

\* INSERT INTO activity_logs (... 'reminder_sent' ...)
LogActivity(r) ==
    /\ pc[r] = "log"
    /\ activity_logs' = Append(activity_logs,
           LogEntry("reminder_sent", Doc(r).user_id, Doc(r).id, r))
    /\ NextDocument(r, "sent")
    /\ UNCHANGED <<fnVars, dataVars, reminders, nextId, now, loaded, today, startDay, histVars,
                   hadSent, evals, userOps, faults>>

LogThrows(r) ==
    /\ pc[r] = "log"
    /\ faults < MaxFaults
    /\ faults' = faults + 1
    /\ NextDocument(r, "log_threw")
    /\ UNCHANGED <<fnVars, dataVars, reminders, nextId, activity_logs, now, loaded,
                   today, startDay, histVars, hadSent, evals, userOps>>

\* the worker is killed in the middle of a pass
Crash(r) ==
    /\ Running(r)
    /\ faults < MaxFaults
    /\ faults' = faults + 1
    /\ pc' = [pc EXCEPT ![r] = "crashed_" \o pc[r]]
    /\ UNCHANGED <<fnVars, dataVars, reminders, nextId, activity_logs, now, loaded,
                   idx, today, startDay, rowId, histVars, outcome, hadSent, evals, userOps>>

(***************************************************************************)
(* Requests of the web layer and the clock                                 *)
(***************************************************************************)
\* UPDATE documents SET status = 'renewed', ... WHERE id = ? AND user_id = ?
\* and the 'document_renewed' log row of the renew handler
RenewDocument(d) ==
    /\ Exists(d)
    /\ documents' = [documents EXCEPT ![d].status = "renewed"]
    /\ activity_logs' = Append(activity_logs,
           LogEntry("document_renewed", documents[d].user_id, d, 0))

\* POST /api/documents/:id/renew by the owner
Renew(d) ==
    /\ userOps < MaxUserOps
    /\ RenewDocument(d)
    /\ userOps' = userOps + 1
    /\ UNCHANGED <<fnVars, users, user_profiles, reminders, nextId, now, passVars,
                   histVars, faults>>

\* DELETE /api/documents/:id by the owner
Delete(d) ==
    /\ userOps < MaxUserOps
    /\ Exists(d)
    /\ documents' = [documents EXCEPT ![d].status = "deleted"]
    /\ reminders' = {row \in reminders :
                       ~(row.document_id = d
                         /\ row.user_id = documents[d].user_id)}
    /\ activity_logs' = Append(activity_logs,
           LogEntry("document_deleted", documents[d].user_id, NoRow, 0))
    /\ userOps' = userOps + 1
    /\ UNCHANGED <<fnVars, users, user_profiles, nextId, now, passVars, histVars, faults>>

\* what the history keeps of one sendTestReminder(u, d): what it returned
\* and how many transport invocations it made (the last `ncalls` entries of
\* testCalls up to `upto`); for a document it found, what a scheduled pass
\* would have found at that moment (status, policy, dedup query); for a
\* successful send, which passes had started before it
TestRecord(u, d, found, threw, result, ncalls) ==
    [user |-> u, doc |-> d, day |-> now, found |-> found, threw |-> threw,
     result |-> result, ncalls |-> ncalls, upto |-> Len(testCalls) + ncalls,
     started |-> IF result THEN {r \in Runs : pc[r] \notin {"idle", "loading"}}
                 ELSE {},
     status |-> documents[d].status,
     due |-> ShouldSendReminder(JoinedRow(d),
                 DaysUntilExpiry(documents[d].expiration_date, now)),
     sentRow |-> found /\ SentRowExists(d, now)]

\* Variant that looks the document up by id only (no `AND d.user_id = ?`).
TestDocumentsAnyOwner(u, d) == IF Exists(d) THEN {d} ELSE {}

\* Variant that also asks for `d.status = 'active'`, as the pass query does.
TestDocumentsActiveOnly(u, d) ==
    IF documents[d].status = "active" /\ documents[d].user_id = u THEN {d}
    ELSE {}

\* SELECT ... FROM documents d ... WHERE d.id = ? AND d.user_id = ?
TestDocuments(u, d) ==
    IF Exists(d) /\ documents[d].user_id = u THEN {d} ELSE {}

\* Variant that records a test send the way a pass records a delivery.
TestSendEffectsRecorded(d, sent) ==
    IF sent
    THEN /\ reminders' = reminders \cup
                {[id |-> nextId, document_id |-> d,
                  user_id |-> documents[d].user_id, reminder_date |-> now,
                  reminder_type |-> GetReminderType(
                      DaysUntilExpiry(documents[d].expiration_date, now)),
                  is_sent |-> TRUE, run |-> 0]}
         /\ nextId' = nextId + 1
         /\ UNCHANGED activity_logs
    ELSE UNCHANGED <<reminders, nextId, activity_logs>>

\* what a test send writes to the database: nothing
TestSendEffects(d, sent) == UNCHANGED <<reminders, nextId, activity_logs>>

\* POST /api/documents/:id/test-reminder -> sendTestReminder(userId, documentId)
SendTestReminder(u, d) ==
    /\ userOps < MaxUserOps
    /\ userOps' = userOps + 1
    /\ IF TestDocuments(u, d) # {}
       THEN \E resp1 \in ProviderResponses, resp2 \in ProviderResponses :
              LET res == SendNotification(JoinedRow(d), resp1, resp2)
              IN  /\ testCalls' = testCalls \o
                         Tagged(res.calls, 0, d, now, NoRow)
                  /\ tests' = Append(tests, TestRecord(u, d, TRUE, FALSE,
                                         res.result, Len(res.calls)))
                  /\ TestSendEffects(d, res.result)
       ELSE /\ tests' = Append(tests, TestRecord(u, d, FALSE, FALSE, FALSE, 0))
            /\ UNCHANGED <<testCalls, reminders, nextId, activity_logs>>
    /\ UNCHANGED <<fnVars, dataVars, now, passVars, calls, faults>>

\* the document query of sendTestReminder threw: caught, it returns false
SendTestReminderThrows(u, d) ==
    /\ userOps < MaxUserOps
    /\ userOps' = userOps + 1
    /\ faults < MaxFaults
    /\ faults' = faults + 1
    /\ tests' = Append(tests, TestRecord(u, d, FALSE, TRUE, FALSE, 0))
    /\ UNCHANGED <<fnVars, dataVars, reminders, nextId, activity_logs, now,
                   passVars, calls, testCalls>>

\* midnight UTC passes
AdvanceDay ==
    /\ now < MaxDay
    /\ now' = now + 1
    /\ UNCHANGED <<fnVars, dataVars, reminders, nextId, activity_logs, passVars,
                   histVars, userOps, faults>>

Next ==
    \/ \E r \in Runs : TriggerPass(r)
    \/ \E r \in Runs : LoadDocuments(r)
    \/ \E r \in Runs : LoadThrows(r)
    \/ \E r \in Runs : CheckDocument(r)
    \/ \E r \in Runs : InsertReminder(r)
    \/ \E r \in Runs : InsertFails(r)
    \/ \E r \in Runs : Send(r)
    \/ \E r \in Runs : MarkSent(r)
    \/ \E r \in Runs : MarkThrows(r)
    \/ \E r \in Runs : LogActivity(r)
    \/ \E r \in Runs : LogThrows(r)
    \/ \E r \in Runs : Crash(r)
    \/ \E d \in Docs : Renew(d)
    \/ \E d \in Docs : Delete(d)
    \/ \E u \in Users, d \in Docs : SendTestReminder(u, d)
    \/ \E u \in Users, d \in Docs : SendTestReminderThrows(u, d)
    \/ AdvanceDay

Spec == Init /\ [][Next]_vars

(***************************************************************************)
(* Overlapping passes.  Nothing in processReminders takes a lock: the cron *)
(* trigger and POST /api/admin/process-reminders each start a pass of      *)
(* their own, whatever pass is in progress.                                *)
(***************************************************************************)
\* runs are numbered in the order in which they start
StartedInOrder(r) == \A q \in Runs : q < r => pc[q] # "idle"

\* a trigger that arrives while another pass may be in progress
TriggerPassConcurrently(r) ==
    /\ pc[r] = "idle"
    /\ StartedInOrder(r)
    /\ pc' = [pc EXCEPT ![r] = "loading"]
    /\ startDay' = [startDay EXCEPT ![r] = now]
    /\ UNCHANGED <<fnVars, dataVars, reminders, nextId, activity_logs, now,
                   loaded, idx, today, rowId, histVars, outcome, hadSent, evals,
                   userOps, faults>>

ConcurrentNext ==
    \/ \E r \in Runs : TriggerPassConcurrently(r)
    \/ \E r \in Runs : LoadDocuments(r)
    \/ \E r \in Runs : CheckDocument(r)
    \/ \E r \in Runs : InsertReminder(r)
    \/ \E r \in Runs : Send(r)
    \/ \E r \in Runs : MarkSent(r)
    \/ \E r \in Runs : LogActivity(r)
    \/ AdvanceDay

ConcurrentSpec == Init /\ [][ConcurrentNext]_vars

(***************************************************************************)
(* Passes that make progress.  The documents are left alone by their       *)
(* owner; a pass that has started and is not killed goes on to its next    *)
(* statement (every await resolves or throws), the trigger keeps starting  *)
(* passes, and the day comes to its end.  Database errors, kills and a     *)
(* provider that never answers stay possible.                              *)
(***************************************************************************)
PassProgress ==
    \E r \in Runs :
        \/ TriggerPass(r)
        \/ LoadDocuments(r)
        \/ CheckDocument(r)
        \/ InsertReminder(r)
        \/ Send(r)
        \/ MarkSent(r)
        \/ LogActivity(r)

LiveNext ==
    \/ \E r \in Runs : TriggerPass(r)
    \/ \E r \in Runs : LoadDocuments(r)
    \/ \E r \in Runs : LoadThrows(r)
    \/ \E r \in Runs : CheckDocument(r)
    \/ \E r \in Runs : InsertReminder(r)
    \/ \E r \in Runs : InsertFails(r)
    \/ \E r \in Runs : Send(r)
    \/ \E r \in Runs : SendHangs(r)
    \/ \E r \in Runs : MarkSent(r)
    \/ \E r \in Runs : MarkThrows(r)
    \/ \E r \in Runs : LogActivity(r)
    \/ \E r \in Runs : LogThrows(r)
    \/ \E r \in Runs : Crash(r)
    \/ AdvanceDay

LiveSpec ==
    Init /\ [][LiveNext]_vars /\ WF_vars(PassProgress) /\ WF_vars(AdvanceDay)

(***************************************************************************)
(* The life of a document.  The owner creates documents, edits them and    *)
(* renews them while the trigger keeps starting passes.  The documents     *)
(* table starts with document 1; document 2 is the next id of the table    *)
(* and has no row until it is created (status "deleted" stands for "no     *)
(* row with this id").  Log rows of these requests keep their created_at   *)
(* day.                                                                    *)
(***************************************************************************)
MaxOwnerOps == 2

DatedLogEntry(action, user, d) ==
    [action_type |-> action, user_id |-> user, related_document_id |-> d,
     run |-> 0, created_at |-> now]

OwnerInit ==
    /\ documents \in {t \in [Docs -> [user_id : {"u1"},
                                      expiration_date : ExpDates,
                                      status : {"active", "deleted"}]] :
                         /\ t[1].status = "active"
                         /\ t[2].status = "deleted"
                         /\ t[2].expiration_date = t[1].expiration_date}
    /\ users = [u \in Users |-> [email |-> Email]]
    /\ user_profiles = [u \in Users |-> NoProfile]
    /\ IdleEngine
    /\ fn = NoCall
    /\ ret = NotApplied

\* POST /api/documents: INSERT INTO documents (...) VALUES (..., 'active', ...)
\* and the 'document_created' log row
CreateDocument(d, expiration_date) ==
    /\ userOps < MaxOwnerOps
    /\ ~Exists(d)
    /\ \A e \in Docs : e < d => Exists(e)
    /\ documents' = [documents EXCEPT
                        ![d] = [user_id |-> "u1",
                                expiration_date |-> expiration_date,
                                status |-> "active"]]
    /\ activity_logs' = Append(activity_logs,
           DatedLogEntry("document_created", "u1", d))
    /\ userOps' = userOps + 1
    /\ UNCHANGED <<fnVars, users, user_profiles, reminders, nextId, now,
                   passVars, histVars, faults>>

\* Variant of the PUT handler that puts an edited document back to active.
UpdateDocumentReactivates(d, expiration_date) ==
    /\ userOps < MaxOwnerOps
    /\ Exists(d)
    /\ documents' = [documents EXCEPT
                        ![d].expiration_date = expiration_date,
                        ![d].status = "active"]
    /\ activity_logs' = Append(activity_logs,
           DatedLogEntry("document_updated", documents[d].user_id, d))
    /\ userOps' = userOps + 1
    /\ UNCHANGED <<fnVars, users, user_profiles, reminders, nextId, now,
                   passVars, histVars, faults>>

\* PUT /api/documents/:id with a new expiration_date: the UPDATE sets the
\* fields of the request body and updated_at, and no other column
UpdateDocument(d, expiration_date) ==
    /\ userOps < MaxOwnerOps
    /\ Exists(d)
    /\ documents' = [documents EXCEPT ![d].expiration_date = expiration_date]
    /\ activity_logs' = Append(activity_logs,
           DatedLogEntry("document_updated", documents[d].user_id, d))
    /\ userOps' = userOps + 1
    /\ UNCHANGED <<fnVars, users, user_profiles, reminders, nextId, now,
                   passVars, histVars, faults>>

\* POST /api/documents/:id/renew, one of several requests of the owner
RenewAmongRequests(d) ==
    /\ userOps < MaxOwnerOps
    /\ RenewDocument(d)
    /\ userOps' = userOps + 1
    /\ UNCHANGED <<fnVars, users, user_profiles, reminders, nextId, now,
                   passVars, histVars, faults>>

OwnerNext ==
    \/ \E d \in Docs, e \in ExpDates : CreateDocument(d, e)
    \/ \E d \in Docs, e \in ExpDates : UpdateDocument(d, e)
    \/ \E d \in Docs : RenewAmongRequests(d)
    \/ \E r \in Runs : TriggerPass(r)
    \/ \E r \in Runs : LoadDocuments(r)
    \/ \E r \in Runs : CheckDocument(r)
    \/ \E r \in Runs : InsertReminder(r)
    \/ \E r \in Runs : Send(r)
    \/ \E r \in Runs : MarkSent(r)
    \/ \E r \in Runs : LogActivity(r)
    \/ AdvanceDay

OwnerSpec == OwnerInit /\ [][OwnerNext]_vars

(***************************************************************************)
(* The pure functions of the two services, one application each: the       *)
(* initial state draws a function and its arguments, the step applies it.  *)
(***************************************************************************)
DaysRange == (-3)..MaxDaysUntilExpiry

\* the five documented frequencies, a missing one (NULL, ''), and unknown
\* ones: the profile endpoint stores any string it is given
Frequencies ==
    {"30_days", "14_days", "7_days", "3_days", "1_day", NULL, "", "weekly",
     "constructor", "toString"}

Channels == {"whatsapp", "sms", "email"}

LongDigits == Phone \o Phone

PhonePrefixes ==
    { << >>, <<"+">>, <<"0", "0">>, <<"0">>, <<"+", "9", "1", " ">>,
      <<"0", "0", "9", "1">>, <<"(", "0", "0", ")", " ">> }

PhoneSeparators == { << >>, <<" ">>, <<"-">> }

\* the digits b written in two groups
Grouped(b, sep) ==
    IF Len(b) > 5 THEN SubSeq(b, 1, 5) \o sep \o SubSeq(b, 6, Len(b)) ELSE b

PhoneInputs ==
    {p \o Grouped(SubSeq(LongDigits, 1, n), sep) :
        p \in PhonePrefixes, n \in 0..MaxPhoneDigits, sep \in PhoneSeparators}

Addresses == {Empty, Phone, <<"1", "2", "3">>, Email}

\* values of user_profiles.preferred_reminder_channel in a joined row: no
\* profile row, an empty string, the three channels, and a value the
\* unvalidated PUT /api/profile can store
PreferredChannels == {NULL, "", "whatsapp", "sms", "email", "telegram"}

\* expiration dates around every boundary of the message variants and of
\* the reminder tiers, seen from day 0 and from day 1
ExpirationDates == {-2, -1, 0, 1, 2, 3, 4, 7, 8, 14, 15, 16}

\* instants of a calendar day, in milliseconds after midnight UTC: the first
\* ones, noon, and the last ones
InstantsOfDay ==
    {0, 1, 999, MsPerDay \div 2, MsPerDay - 1000, MsPerDay - 1}

FnCalls ==
    [name : {"shouldSendReminder"}, frequency : Frequencies, days : DaysRange]
    \cup [name : {"getReminderType"}, days : DaysRange]
    \cup [name : {"formatPhoneNumber"}, phoneNumber : PhoneInputs]
    \cup [name : {"send"}, channel : Channels, env : [EnvKeys -> BOOLEAN],
          to : Addresses, resp : ProviderResponses]
    \cup [name : {"sendNotification"}, channel : PreferredChannels,
          phone_number : {Empty, Phone}, email : {Empty, Email},
          resp1 : ProviderResponses, resp2 : ProviderResponses]
    \cup [name : {"formatMessage"}, daysUntilExpiry : DaysRange,
          isCritical : BOOLEAN]
    \cup [name : {"daysUntilExpiry"}, expiration_date : ExpirationDates,
          day : 0..MaxDay, msOfDay : InstantsOfDay, isCritical : BOOLEAN]

FnInit ==
    /\ documents = [d \in Docs |-> [user_id |-> "u1", expiration_date |-> 7,
                                    status |-> "active"]]
    /\ users = [u \in Users |-> [email |-> Email]]
    /\ user_profiles = [u \in Users |-> NoProfile]
    /\ IdleEngine
    /\ fn \in FnCalls
    /\ ret = NotApplied

engineVars == <<dataVars, reminders, nextId, activity_logs, now, passVars,
                histVars, userOps, faults>>

ApplyShouldSendReminder ==
    /\ fn.name = "shouldSendReminder"
    /\ ~ret.done
    /\ LET doc == [reminder_frequency |-> fn.frequency]
           threw == ShouldSendReminderThrows(doc, fn.days)
       IN  ret' = [done |-> TRUE, threw |-> threw,
                   value |-> IF threw THEN FALSE
                             ELSE ShouldSendReminder(doc, fn.days)]
    /\ UNCHANGED <<engineVars, fn>>

ApplyGetReminderType ==
    /\ fn.name = "getReminderType"
    /\ ~ret.done
    /\ ret' = [done |-> TRUE, value |-> GetReminderType(fn.days)]
    /\ UNCHANGED <<engineVars, fn>>

ApplyFormatPhoneNumber ==
    /\ fn.name = "formatPhoneNumber"
    /\ ~ret.done
    /\ ret' = [done |-> TRUE, value |-> FormatPhoneNumber(fn.phoneNumber)]
    /\ UNCHANGED <<engineVars, fn>>

ApplySend ==
    /\ fn.name = "send"
    /\ ~ret.done
    /\ ret' = [done |-> TRUE,
               value |-> CASE fn.channel = "whatsapp" ->
                                SendWhatsAppNotification(fn.env, fn.to, fn.resp)
                           [] fn.channel = "sms" ->
                                SendSMSNotification(fn.env, fn.to, fn.resp)
                           [] fn.channel = "email" ->
                                SendEmailNotification(fn.env, fn.to, fn.resp)]
    /\ UNCHANGED <<engineVars, fn>>

ApplySendNotification ==
    /\ fn.name = "sendNotification"
    /\ ~ret.done
    /\ LET doc == [user_id |-> "u1", email |-> fn.email,
                   preferred_reminder_channel |-> fn.channel,
                   phone_number |-> fn.phone_number]
       IN  ret' = [done |-> TRUE,
                   value |-> SendNotification(doc, fn.resp1, fn.resp2)]
    /\ UNCHANGED <<engineVars, fn>>

\* the three texts built from one payload: formatWhatsAppMessage (called
\* by sendWhatsAppNotification), formatSMSMessage (sendSMSNotification)
\* and getEmailSubject (sendEmailNotification)
ApplyFormatMessage ==
    /\ fn.name = "formatMessage"
    /\ ~ret.done
    /\ LET payload == [daysUntilExpiry |-> fn.daysUntilExpiry,
                       isCritical |-> fn.isCritical]
       IN  ret' = [done |-> TRUE,
                   value |-> [whatsapp |-> FormatWhatsAppMessage(payload),
                              sms |-> FormatSMSMessage(payload),
                              subject |-> GetEmailSubject(payload)]]
    /\ UNCHANGED <<engineVars, fn>>

\* daysUntilExpiry for one document as a pass of that day computes it and
\* as sendTestReminder computes it at one instant of that day, and the texts
\* sendNotification's transports build from each
ApplyDaysUntilExpiry ==
    /\ fn.name = "daysUntilExpiry"
    /\ ~ret.done
    /\ LET pass == DaysUntilExpiry(fn.expiration_date, fn.day)
           test == TestDaysUntilExpiry(fn.expiration_date, fn.day, fn.msOfDay)
           Texts(days) ==
               LET payload == [daysUntilExpiry |-> days,
                               isCritical |-> fn.isCritical]
               IN  [reminderType |-> GetReminderType(days),
                    whatsapp |-> FormatWhatsAppMessage(payload),
                    sms |-> FormatSMSMessage(payload),
                    subject |-> GetEmailSubject(payload)]
       IN  ret' = [done |-> TRUE,
                   value |-> [pass |-> pass, test |-> test,
                              passTexts |-> Texts(pass),
                              testTexts |-> Texts(test)]]
    /\ UNCHANGED <<engineVars, fn>>

FnNext ==
    \/ ApplyShouldSendReminder
    \/ ApplyGetReminderType
    \/ ApplyFormatPhoneNumber
    \/ ApplySend
    \/ ApplySendNotification
    \/ ApplyFormatMessage
    \/ ApplyDaysUntilExpiry

FnSpec == FnInit /\ [][FnNext]_vars

(***************************************************************************)
(* Vocabulary of the properties                                            *)
(***************************************************************************)
Days == 0..MaxDay

LoadedIds(r) == {loaded[r][i].id : i \in 1..Len(loaded[r])}

Range(seq) == {seq[i] : i \in DOMAIN seq}

\* position of document d in the list pass r loaded
Pos(r, d) == CHOOSE i \in 1..Len(loaded[r]) : loaded[r][i].id = d

SentRows(d, day) ==
    {row \in reminders : row.document_id = d /\ row.reminder_date = day
                         /\ row.is_sent}

\* transport invocations pass r made for document d
CallsOf(r, d) == {i \in DOMAIN calls : calls[i].run = r /\ calls[i].doc = d}

\* successful deliveries of passes for document d on calendar day `day`
Delivered(d, day) ==
    {i \in DOMAIN calls : calls[i].doc = d /\ calls[i].day = day /\ calls[i].ok}

RowsOf(r, d) == {row \in reminders : row.run = r /\ row.document_id = d}

SentLogsOf(r, d) ==
    {i \in DOMAIN activity_logs :
        /\ activity_logs[i].action_type = "reminder_sent"
        /\ activity_logs[i].run = r
        /\ activity_logs[i].related_document_id = d}

Crashed(r) == pc[r] \in {"crashed_check", "crashed_insert", "crashed_send",
                         "crashed_mark", "crashed_log"}

\* pass r went through sendNotification for document d
Attempted(r, d) == outcome[r][d] \in {"send_failed", "sent"}

(***************************************************************************)
(* C1.  When passes never overlap, every reachable state has at most one   *)
(* reminder row with is_sent = 1 for each (document_id, reminder_date).    *)
(***************************************************************************)
AtMostOneSentRow ==
    \A d \in Docs, day \in Days : Cardinality(SentRows(d, day)) <= 1

\* a second pass met the sent row of an earlier pass of the same day
SecondPassMetSentRow ==
    \E r1 \in Runs, r2 \in Runs, d \in Docs :
        /\ r1 < r2
        /\ today[r1] = today[r2]
        /\ outcome[r1][d] = "sent"
        /\ outcome[r2][d] = "already_sent"
        /\ Cardinality(SentRows(d, today[r2])) = 1

(***************************************************************************)
(* C2.  A pass that, at its dedup check for a document, finds a sent row   *)
(* of that document for its day invokes no transport for the document,     *)
(* inserts no reminder row for it and writes no activity log for it.       *)
(***************************************************************************)
SentRowMakesPassSkip ==
    \A r \in Runs : \A d \in hadSent[r] :
        /\ CallsOf(r, d) = {}
        /\ RowsOf(r, d) = {}
        /\ SentLogsOf(r, d) = {}
        /\ outcome[r][d] \in {"already_sent", "check_threw"}

\* a pass completed after skipping a document that had a sent row, while
\* the earlier pass's row and log entry are the only ones of the day
SkippedAlreadySent ==
    \E r \in Runs, d \in Docs :
        /\ pc[r] = "done"
        /\ d \in hadSent[r]
        /\ outcome[r][d] = "already_sent"
        /\ Cardinality({i \in DOMAIN activity_logs :
               activity_logs[i].action_type = "reminder_sent"
               /\ activity_logs[i].related_document_id = d}) = 1

(***************************************************************************)
(* C3.  For a due document a pass first inserts a row with is_sent = 0     *)
(* and reminder_type = getReminderType(daysUntilExpiry), then invokes the  *)
(* transport, and only after the transport reported success marks that     *)
(* same row sent and then writes the activity log; no row is sent without  *)
(* a successful transport result for it.                                   *)
(***************************************************************************)
RowStateAt(r) == {row \in reminders : row.id = rowId[r]}

InsertSendMarkLogOrder ==
    /\ \A row \in reminders :
          /\ row.is_sent =>
                \E i \in DOMAIN calls : /\ calls[i].row = row.id
                                        /\ calls[i].run = row.run
                                        /\ calls[i].doc = row.document_id
                                        /\ calls[i].ok
          /\ row.reminder_type = GetReminderType(
                 documents[row.document_id].expiration_date - row.reminder_date)
    /\ \A r \in Runs :
          /\ pc[r] = "send" =>
                /\ \A row \in RowStateAt(r) : ~row.is_sent
                /\ CallsOf(r, Doc(r).id) = {}
          /\ pc[r] = "mark" =>
                /\ \A row \in RowStateAt(r) : ~row.is_sent
                /\ \E i \in CallsOf(r, Doc(r).id) :
                      calls[i].ok /\ calls[i].row = rowId[r]
                /\ SentLogsOf(r, Doc(r).id) = {}
          /\ pc[r] = "log" =>
                /\ \A row \in RowStateAt(r) : row.is_sent
                /\ SentLogsOf(r, Doc(r).id) = {}
    /\ \A i \in DOMAIN activity_logs :
          activity_logs[i].action_type = "reminder_sent" =>
             LET r == activity_logs[i].run
                 d == activity_logs[i].related_document_id
             IN  /\ \E j \in CallsOf(r, d) : calls[j].ok
                 /\ \A row \in RowsOf(r, d) : row.is_sent

\* a row was inserted, delivered, marked and logged
RowSentAndLogged ==
    \E r \in Runs, d \in Docs :
        /\ outcome[r][d] = "sent"
        /\ \E row \in RowsOf(r, d) : row.is_sent
        /\ SentLogsOf(r, d) # {}

(***************************************************************************)
(* C4.  Original statement: crashing a pass at any step and re-running it  *)
(* on the same day never delivers more than one notification for the same  *)
(* document and calendar day (no database error, document not deleted).    *)
(***************************************************************************)
NoDbError ==
    /\ \A r \in Runs : pc[r] # "load_failed"
    /\ \A r \in Runs, d \in Docs : outcome[r][d] \notin ErrorOutcomes

LostMarks(d, day) ==
    {r \in Runs : /\ today[r] = day
                  /\ \/ pc[r] = "crashed_mark" /\ Doc(r).id = d
                     \/ outcome[r][d] = "mark_threw"}

FailedDeliveryLeavesRowUnsent ==
    \A r \in Runs, d \in Docs :
        outcome[r][d] = "send_failed" =>
           /\ \A row \in RowsOf(r, d) : ~row.is_sent
           /\ SentLogsOf(r, d) = {}
           /\ \A i \in CallsOf(r, d) : ~calls[i].ok
           /\ idx[r] > Pos(r, d)
           /\ pc[r] = "done" => idx[r] > Len(loaded[r])

\* the transport failed for the first document and the pass went on to
\* deliver the second
FailedThenNextDelivered ==
    \E r \in Runs :
        /\ Len(loaded[r]) = 2
        /\ outcome[r][loaded[r][1].id] = "send_failed"
        /\ CallsOf(r, loaded[r][1].id) # {}
        /\ \E row \in RowsOf(r, loaded[r][1].id) : ~row.is_sent
        /\ outcome[r][loaded[r][2].id] = "sent"

(***************************************************************************)
(* C6.  Original statement: after a pass's delivery for a due document     *)
(* has failed, the next pass attempts delivery for that document again     *)
(* (no crash, no database error, no request of the owner in between).      *)
(***************************************************************************)
\* the joined row of document d as pass r loaded it
Row(r, d) == loaded[r][Pos(r, d)]

DueFor(r, d) ==
    ShouldSendReminder(Row(r, d),
        DaysUntilExpiry(Row(r, d).expiration_date, today[r]))

WhatsAppWithoutPhoneGoesByEmail ==
    \A r \in Runs, d \in Docs :
        ( /\ Attempted(r, d)
          /\ Row(r, d).preferred_reminder_channel = "whatsapp"
          /\ Row(r, d).phone_number = Empty
          /\ Row(r, d).email # Empty )
        => \E i \in CallsOf(r, d) : /\ calls[i].channel = "email"
                                    /\ calls[i].to = Row(r, d).email

(***************************************************************************)
(* C8.  When the preferred channel is whatsapp or sms, the delivery on     *)
(* that channel fails and the owner has an email address, exactly one      *)
(* further attempt is made via the email channel.                          *)
(***************************************************************************)
FailedPhoneChannelRetriesByEmail ==
    \A r \in Runs, d \in Docs :
        ( /\ Attempted(r, d)
          /\ Row(r, d).preferred_reminder_channel \in {"whatsapp", "sms"}
          /\ Row(r, d).email # Empty
          /\ \E i \in CallsOf(r, d) :
                /\ calls[i].channel = Row(r, d).preferred_reminder_channel
                /\ ~calls[i].ok )
        => Cardinality({i \in CallsOf(r, d) : calls[i].channel = "email"}) = 1

(***************************************************************************)
(* C9.  Within one pass every loaded document is evaluated exactly once,   *)
(* in the order loaded, and neither a failed delivery nor a thrown         *)
(* database error for one document keeps the pass from the documents       *)
(* after it.                                                               *)
(***************************************************************************)
EveryDocumentEvaluatedOnceInOrder ==
    \A r \in Runs :
        /\ Len(evals[r]) <= Len(loaded[r])
        /\ \A i \in 1..Len(evals[r]) : evals[r][i] = loaded[r][i].id
        /\ pc[r] = "done" => Len(evals[r]) = Len(loaded[r])
        /\ pc[r] = "check" => Len(evals[r]) = idx[r] - 1
        /\ \A d \in Docs :
              outcome[r][d] \in ErrorOutcomes \cup {"send_failed"} =>
                 idx[r] > Pos(r, d)

\* a pass completed: its first document hit an error or a failed delivery,
\* its second document was delivered
PassWentOnAfterError ==
    \E r \in Runs :
        /\ pc[r] = "done"
        /\ Len(loaded[r]) = 2
        /\ outcome[r][loaded[r][1].id] \in ErrorOutcomes
        /\ outcome[r][loaded[r][2].id] = "sent"
        /\ evals[r] = <<loaded[r][1].id, loaded[r][2].id>>

(***************************************************************************)
(* C10.  processReminders never propagates an exception: when the          *)
(* candidate query fails the pass ends normally, having inserted no        *)
(* reminder row, written no activity log and invoked no transport.         *)
(***************************************************************************)
PassPositions ==
    {"idle", "loading", "check", "insert", "send", "mark", "log", "done", "load_failed",
     "crashed_check", "crashed_insert", "crashed_send", "crashed_mark",
     "crashed_log"}

FailedQueryEndsPassQuietly ==
    \A r \in Runs :
        /\ pc[r] \in PassPositions
        /\ pc[r] # "threw"
        /\ pc[r] = "load_failed" =>
              /\ {row \in reminders : row.run = r} = {}
              /\ {i \in DOMAIN calls : calls[i].run = r} = {}
              /\ {i \in DOMAIN activity_logs : activity_logs[i].run = r} = {}
              /\ evals[r] = << >>

\* the candidate query of a pass failed and a later pass ran to completion
QueryFailedThenLaterPassRan ==
    \E r \in Runs :
        /\ pc[r] = "load_failed"
        /\ r + 1 \in Runs
        /\ pc[r + 1] = "done"
        /\ \E d \in Docs : outcome[r + 1][d] = "sent"

(***************************************************************************)
(* C11.  Each of the three channel sends resolves to true or false and     *)
(* never throws: with the channel's credentials missing, or (whatsapp,     *)
(* sms) with an invalid phone number, it resolves to false without making  *)
(* a network request; a non-success provider response or a thrown network  *)
(* error resolves to false.                                                *)
(***************************************************************************)
Configured(channel, env) ==
    CASE channel = "whatsapp" ->
            env["WHATSAPP_ACCESS_TOKEN"] /\ env["WHATSAPP_PHONE_NUMBER_ID"]
      [] channel = "sms" ->
            /\ env["TWILIO_ACCOUNT_SID"]
            /\ env["TWILIO_AUTH_TOKEN"]
            /\ env["TWILIO_PHONE_NUMBER"]
      [] channel = "email" -> env["RESEND_API_KEY"]

AllDigits(seq) == \A i \in DOMAIN seq : seq[i] \in Digits

\* the digits of `to`, less a leading 00, do not make a 10..15 digit number
InvalidPhone(to) ==
    LET ds == SelectSeq(to, IsDigit)
        n == IF Len(ds) >= 2 /\ SubSeq(ds, 1, 2) = <<"0", "0">>
             THEN Len(ds) - 2 ELSE Len(ds)
    IN  n < 10 \/ n > 15

ChannelSendNeverThrows ==
    (fn.name = "send" /\ ret.done) =>
        /\ ~ret.value.threw
        /\ ret.value.ok \in BOOLEAN
        /\ ~Configured(fn.channel, fn.env) =>
               ~ret.value.ok /\ ~ret.value.fetched
        /\ (fn.channel \in {"whatsapp", "sms"} /\ InvalidPhone(fn.to)) =>
               ~ret.value.ok /\ ~ret.value.fetched
        /\ fn.resp \in {"error", "throw"} => ~ret.value.ok

\* a configured sms send to a valid number met a network error: false
NetworkErrorResolvedFalse ==
    /\ fn.name = "send" /\ ret.done
    /\ fn.channel = "sms"
    /\ Configured("sms", fn.env)
    /\ fn.to = Phone
    /\ fn.resp = "throw"
    /\ ret.value.fetched
    /\ ~ret.value.ok
    /\ ~ret.value.threw

(***************************************************************************)
(* C12.  sendTestReminder leaves the reminders and activity_logs tables    *)
(* unchanged whatever its outcome; consequently every reminder row is the  *)
(* row of a pass, and a pass skips a document as already sent only when a  *)
(* pass, never a test send, delivered for that document on that day.       *)
(***************************************************************************)
\* the step serves a test-reminder request
TestStep == Len(tests') = Len(tests) + 1

TestSendWritesNothing ==
    /\ [][TestStep => UNCHANGED <<reminders, nextId, activity_logs>>]_vars
    /\ [](\A row \in reminders : row.run \in Runs)
    /\ [](\A r \in Runs, d \in Docs :
            outcome[r][d] = "already_sent" =>
               \E i \in DOMAIN calls : /\ calls[i].doc = d
                                        /\ calls[i].day = today[r]
                                        /\ calls[i].run # r
                                        /\ calls[i].ok)

\* a test send succeeded before a pass of the same day started, and that
\* pass delivered the document all the same
DeliveredAfterTestSend ==
    \E i \in DOMAIN tests, r \in Runs :
        /\ tests[i].result
        /\ r \notin tests[i].started
        /\ tests[i].day = today[r]
        /\ outcome[r][tests[i].doc] = "sent"
        /\ \E j \in DOMAIN testCalls : testCalls[j].ok

(***************************************************************************)
(* C13.  sendTestReminder attempts delivery for a document its caller      *)
(* owns whenever the owner has an address for the preferred channel: also  *)
(* when the policy says no reminder is due that day, when a sent reminder  *)
(* row of that day exists, and when the document's status is not active.   *)
(***************************************************************************)
\* the channel of user u and whether u has an address on file for it
ChannelOf(u) ==
    IF user_profiles[u].preferred_reminder_channel = NULL THEN "email"
    ELSE user_profiles[u].preferred_reminder_channel

HasAddress(u) ==
    IF ChannelOf(u) \in {"whatsapp", "sms"}
    THEN user_profiles[u].phone_number # Empty
    ELSE users[u].email # Empty

\* the transport invocations of the i-th test send
TestCallsOf(i) == (tests[i].upto - tests[i].ncalls + 1)..tests[i].upto

TestSendBypassesPassChecks ==
    \A i \in DOMAIN tests :
        LET t == tests[i]
        IN  /\ t.found = ( /\ documents[t.doc].user_id = t.user
                           /\ t.status # "deleted"
                           /\ ~t.threw )
            /\ (t.found /\ HasAddress(t.user)) =>
                  /\ t.ncalls >= 1
                  /\ \A j \in TestCallsOf(i) :
                        /\ testCalls[j].doc = t.doc
                        /\ testCalls[j].day = t.day
                  /\ \E j \in TestCallsOf(i) :
                        testCalls[j].channel = ChannelOf(t.user)

\* a test send reached the transport for a renewed document on a day on
\* which the policy asks for no reminder
TestSentForRenewedNotDue ==
    \E i \in DOMAIN tests :
        /\ tests[i].status = "renewed"
        /\ ~tests[i].due
        /\ tests[i].ncalls = 1
        /\ tests[i].result

\* a test send reached the transport although a sent row of the day existed
TestSentDespiteSentRow ==
    \E i \in DOMAIN tests :
        /\ tests[i].sentRow
        /\ tests[i].due
        /\ tests[i].ncalls = 1
        /\ tests[i].result

(***************************************************************************)
(* C14.  sendTestReminder(userId, documentId) returns false and invokes    *)
(* no transport when no document with that id is owned by that user;       *)
(* every transport invocation of a test send is for a document of the      *)
(* user who asked for it, to that user's own address.                      *)
(***************************************************************************)
TestSendOnlyForOwnDocument ==
    /\ \A i \in DOMAIN tests :
          (documents[tests[i].doc].user_id # tests[i].user
              \/ tests[i].status = "deleted") =>
             /\ ~tests[i].result
             /\ tests[i].ncalls = 0
    /\ \A j \in DOMAIN testCalls :
          \E i \in DOMAIN tests :
             /\ j \in TestCallsOf(i)
             /\ testCalls[j].doc = tests[i].doc
             /\ documents[testCalls[j].doc].user_id = tests[i].user
             /\ testCalls[j].to \in {users[tests[i].user].email,
                                     user_profiles[tests[i].user].phone_number}

\* user u2 asked for a test reminder of a document of u1: false, nothing sent
ForeignTestSendRefused ==
    \E i \in DOMAIN tests :
        /\ tests[i].user = "u2"
        /\ documents[tests[i].doc].user_id = "u1"
        /\ tests[i].status = "active"
        /\ ~tests[i].threw
        /\ ~tests[i].result
        /\ tests[i].ncalls = 0
        /\ testCalls = << >>

(***************************************************************************)
(* C15.  For every daysUntilExpiry >= 0, shouldSendReminder returns true   *)
(* exactly when daysUntilExpiry is in the threshold set of the frequency   *)
(* (30_days {30,14,7,3,1,0}, 14_days {14,7,3,1,0}, 7_days {7,3,1,0},       *)
(* 3_days {3,1,0}, 1_day {1,0}), a missing or unknown frequency being      *)
(* treated as 30_days.                                                     *)
(***************************************************************************)
Thresholds(frequency) ==
    CASE frequency = "14_days" -> {14, 7, 3, 1, 0}
      [] frequency = "7_days"  -> {7, 3, 1, 0}
      [] frequency = "3_days"  -> {3, 1, 0}
      [] frequency = "1_day"   -> {1, 0}
      [] OTHER                 -> {30, 14, 7, 3, 1, 0}

ShouldSendReminderFollowsThresholds ==
    (fn.name = "shouldSendReminder" /\ ret.done /\ fn.days >= 0) =>
        /\ ~ret.threw
        /\ ret.value = (fn.days \in Thresholds(fn.frequency))

\* the same for the frequencies that are not members of Object.prototype
ShouldSendReminderFollowsThresholdsForPlainNames ==
    (fn.name = "shouldSendReminder" /\ ret.done /\ fn.days >= 0
        /\ fn.frequency \notin ObjectPrototypeKeys) =>
        /\ ~ret.threw
        /\ ret.value = (fn.days \in Thresholds(fn.frequency))

(***************************************************************************)
(* C16.  An active document whose expiration date is before the day of a   *)
(* pass is due in that pass whatever the owner's frequency and its row is  *)
(* classified `expired`; it has exactly one sent row for every calendar    *)
(* day on which a pass delivered it, day after day while it stays active.  *)
(***************************************************************************)
ExpiredDocumentDueEveryDay ==
    \A r \in Runs, d \in Docs :
        (d \in LoadedIds(r) /\ Row(r, d).expiration_date < today[r]) =>
            /\ idx[r] > Pos(r, d) => outcome[r][d] \notin {"none", "not_due"}
            /\ outcome[r][d] # "not_due"
            /\ \A row \in RowsOf(r, d) : row.reminder_type = "expired"
            /\ (outcome[r][d] = "sent" /\ Exists(d)) =>
                  Cardinality(SentRows(d, today[r])) = 1

\* a document that expired before day 0 has one sent `expired` row for day
\* 0 and one for day 1
ExpiredRemindedOnBothDays ==
    \E d \in Docs, r1 \in Runs, r2 \in Runs :
        /\ documents[d].status = "active"
        /\ documents[d].expiration_date < 0
        /\ today[r1] = 0 /\ outcome[r1][d] = "sent"
        /\ today[r2] = 1 /\ outcome[r2][d] = "sent"
        /\ \A day \in {0, 1} :
              /\ Cardinality(SentRows(d, day)) = 1
              /\ \A row \in SentRows(d, day) : row.reminder_type = "expired"

(***************************************************************************)
(* C17.  getReminderType classifies every integer daysUntilExpiry into     *)
(* exactly one tier: < 0 expired, = 0 expires_today, 1..3 expires_soon,    *)
(* 4..7 expires_week, 8..14 expires_two_weeks, >= 15 expires_month.        *)
(***************************************************************************)
Tiers ==
    {"expired", "expires_today", "expires_soon", "expires_week",
     "expires_two_weeks", "expires_month"}

GetReminderTypeIsTotalTiering ==
    (fn.name = "getReminderType" /\ ret.done) =>
        /\ ret.value \in Tiers
        /\ (ret.value = "expired") = (fn.days < 0)
        /\ (ret.value = "expires_today") = (fn.days = 0)
        /\ (ret.value = "expires_soon") = (fn.days \in 1..3)
        /\ (ret.value = "expires_week") = (fn.days \in 4..7)
        /\ (ret.value = "expires_two_weeks") = (fn.days \in 8..14)
        /\ (ret.value = "expires_month") = (fn.days >= 15)

\* the first day of the last tier
FifteenDaysIsExpiresMonth ==
    /\ fn.name = "getReminderType" /\ ret.done
    /\ fn.days = 15
    /\ ret.value = "expires_month"

(***************************************************************************)
(* C18.  formatPhoneNumber removes every non-digit character, then a       *)
(* leading `00`, prefixes 91 when exactly 10 digits remain, and returns    *)
(* the digits only when their number is within 10..15, otherwise the       *)
(* empty result; a 10-digit national number and the same number written    *)
(* with +91 and spaces both give the same 12 digits, and a 3-digit input   *)
(* is rejected.                                                            *)
(***************************************************************************)
National == Phone
International == <<"+", "9", "1", " ">> \o SubSeq(Phone, 1, 5) \o <<" ">>
                    \o SubSeq(Phone, 6, 10)

\* the digits of s, in order
DigitsOf(s) == SelectSeq(s, IsDigit)

\* s without its first two elements when these are 0, 0
WithoutDoubleZero(s) ==
    IF Len(s) >= 2 /\ s[1] = "0" /\ s[2] = "0" THEN SubSeq(s, 3, Len(s))
    ELSE s

WithCountryCode(s) == IF Len(s) = 10 THEN <<"9", "1">> \o s ELSE s

FormatPhoneNumberNormalizes ==
    (fn.name = "formatPhoneNumber" /\ ret.done) =>
        LET full == WithCountryCode(WithoutDoubleZero(DigitsOf(fn.phoneNumber)))
        IN  /\ AllDigits(ret.value)
            /\ ret.value # Empty => Len(ret.value) \in 10..15
            /\ ret.value = IF Len(full) \in 10..15 THEN full ELSE Empty
            /\ fn.phoneNumber \in {National, International} =>
                  /\ ret.value = <<"9", "1">> \o National
                  /\ Len(ret.value) = 12
            /\ Len(DigitsOf(fn.phoneNumber)) = 3 => ret.value = Empty

\* the number written with +91 and spaces was normalized to 12 digits
InternationalFormNormalized ==
    /\ fn.name = "formatPhoneNumber" /\ ret.done
    /\ fn.phoneNumber = International
    /\ ret.value = <<"9", "1">> \o National

\* the plain 10-digit national number was normalized to the same 12 digits
NationalFormNormalized ==
    /\ fn.name = "formatPhoneNumber" /\ ret.done
    /\ fn.phoneNumber = National
    /\ ret.value = <<"9", "1">> \o National

\* a 3-digit input was rejected
ThreeDigitsRejected ==
    /\ fn.name = "formatPhoneNumber" /\ ret.done
    /\ Len(DigitsOf(fn.phoneNumber)) = 3
    /\ fn.phoneNumber # Empty
    /\ ret.value = Empty

(***************************************************************************)
(* C19.  A pass never inserts a reminder row, invokes the transport or     *)
(* writes a log for a document whose status was not `active` when the      *)
(* pass loaded its candidates: the candidates are exactly the documents    *)
(* that are active at that moment, and a document already renewed when a   *)
(* pass starts receives nothing from it.                                   *)
(***************************************************************************)
\* the step in which pass r loads its candidates
LoadStep(r) == pc[r] = "loading" /\ pc'[r] \in {"check", "done"}

OnlyActiveDocumentsProcessed ==
    /\ [][\A r \in Runs :
            LoadStep(r) =>
               LoadedIds(r)' = {d \in Docs : documents[d].status = "active"}]_vars
    /\ [](\A r \in Runs :
            /\ \A i \in DOMAIN loaded[r] : loaded[r][i].status = "active"
            /\ \A d \in Docs \ LoadedIds(r) :
                  /\ RowsOf(r, d) = {}
                  /\ CallsOf(r, d) = {}
                  /\ SentLogsOf(r, d) = {}
                  /\ outcome[r][d] = "none"
                  /\ d \notin Range(evals[r]))

\* a pass completed: it delivered one document and left alone the other,
\* renewed before the pass started and long expired
RenewedDocumentLeftAlone ==
    \E r \in Runs, d \in Docs, e \in Docs :
        /\ pc[r] = "done"
        /\ outcome[r][e] = "sent"
        /\ documents[d].status = "renewed"
        /\ documents[d].expiration_date < today[r]
        /\ d \notin LoadedIds(r)
        /\ RowsOf(r, d) = {} /\ CallsOf(r, d) = {}

(***************************************************************************)
(* C20.  Neither a step of a scheduled pass nor a test send inserts,       *)
(* updates or deletes a row of documents, users or user_profiles: a pass   *)
(* writes to reminders and activity_logs only.                             *)
(***************************************************************************)
\* a step of pass r
PassStep(r) == pc'[r] # pc[r]

PassAndTestSendLeaveDocumentsAlone ==
    [][((\E r \in Runs : PassStep(r)) \/ TestStep) =>
          UNCHANGED <<documents, users, user_profiles>>]_vars

\* a pass marked and logged a delivery and a test send went out, and the
\* joined row of the document is still what the pass had loaded
DocumentUntouchedByPassAndTest ==
    \E r \in Runs, d \in Docs, i \in DOMAIN tests :
        /\ pc[r] = "done"
        /\ outcome[r][d] = "sent"
        /\ tests[i].result /\ tests[i].doc = d
        /\ Row(r, d) = JoinedRow(d)


(***************************************************************************)
(* C21.  When two passes overlap on one day (the scheduled trigger and the *)
(* manual process-reminders endpoint), both can pass the sent-row check    *)
(* for the same document before either marks its row sent: both deliver,   *)
(* and two sent rows exist for one (document_id, reminder_date).  Every    *)
(* sent row is the own row of a pass that delivered, and rows sent twice   *)
(* for one key come from passes that both found no sent row at their       *)
(* check.                                                                  *)
(***************************************************************************)
OverlappingPassesBothDeliver ==
    \A d \in Docs, day \in Days :
        /\ \A row \in SentRows(d, day) :
              /\ today[row.run] = day
              /\ \E i \in CallsOf(row.run, d) :
                    calls[i].ok /\ calls[i].row = row.id
        /\ Cardinality(SentRows(d, day)) >= 2 =>
              \A row \in SentRows(d, day) : d \notin hadSent[row.run]

\* two passes delivered one document on one day and each marked its row
TwoSentRowsForOneDay ==
    \E d \in Docs, day \in Days :
        /\ Cardinality(SentRows(d, day)) = 2
        /\ Cardinality(Delivered(d, day)) = 2
        /\ \A r \in Runs : today[r] = day /\ d \notin hadSent[r]
                           /\ SentLogsOf(r, d) # {}

(***************************************************************************)
(* C22.  In every reachable state after a document delete request has      *)
(* completed, no reminder row references the deleted document, also when   *)
(* the delete interleaves with a pass that had already loaded that         *)
(* document.                                                               *)
(***************************************************************************)
NoReminderOfDeletedDocument ==
    \A row \in reminders : Exists(row.document_id)

\* between deletes and without a pass in progress the cascade is complete:
\* a row of a deleted document is always a row some pass inserted for a
\* document it had loaded before the delete
OrphanRowsComeFromLoadedPasses ==
    \A row \in reminders :
        ~Exists(row.document_id) =>
            /\ row.document_id \in LoadedIds(row.run)
            /\ Row(row.run, row.document_id).status = "active"

(***************************************************************************)
(* C23.  The delivery channel is the owner's preferred_reminder_channel,   *)
(* email when there is no profile row or no channel set.  whatsapp and sms *)
(* deliver to the profile phone number through their own transports;       *)
(* email, and any unrecognized channel value, delivers to the owner's      *)
(* email address through the email transport.                              *)
(***************************************************************************)
\* the channel the preference stands for
ChosenChannel(preferred) ==
    IF preferred \in {"whatsapp", "sms"} THEN preferred ELSE "email"

\* sendNotification has been applied to the drawn joined row
SendNotificationApplied == fn.name = "sendNotification" /\ ret.done

ChannelAndAddressFollowPreference ==
    SendNotificationApplied =>
        LET ch == ChosenChannel(fn.channel)
            to == IF ch = "email" THEN fn.email ELSE fn.phone_number
            cs == ret.value.calls
        IN  /\ \A i \in DOMAIN cs : cs[i].channel = ch /\ cs[i].to = to
            /\ to # Empty => Len(cs) = 1 /\ ret.value.result = cs[1].ok

\* a stored channel value that is none of the three went out by email
UnrecognizedChannelSentByEmail ==
    /\ SendNotificationApplied
    /\ fn.channel = "telegram"
    /\ fn.phone_number = Phone
    /\ ret.value.result
    /\ ret.value.calls = <<[channel |-> "email", to |-> Email, ok |-> TRUE,
                            threw |-> FALSE]>>

\* no profile row: email; a phone channel: its own transport, to the phone
EachChannelReachesItsAddress ==
    SendNotificationApplied /\ ret.value.result =>
        /\ fn.channel = NULL => ret.value.calls[1].channel = "email"
        /\ fn.channel = "sms" =>
              ret.value.calls[1].channel = "sms"
              /\ ret.value.calls[1].to = fn.phone_number

(***************************************************************************)
(* C24.  When the address resolved for the chosen channel is empty,        *)
(* sendNotification invokes no transport and returns false: the reminder   *)
(* row the pass has just inserted stays unsent and no activity log is      *)
(* written.                                                                *)
(***************************************************************************)
\* the address sendNotification resolves for a joined row
AddressOf(doc) ==
    GetNotificationAddress(doc, ChosenChannel(doc.preferred_reminder_channel))

EmptyAddressSendsNothing ==
    \A r \in Runs : \A d \in LoadedIds(r) :
        AddressOf(Row(r, d)) = Empty =>
            /\ CallsOf(r, d) = {}
            /\ \A row \in RowsOf(r, d) : ~row.is_sent
            /\ SentLogsOf(r, d) = {}
            /\ outcome[r][d] \notin {"sent", "mark_threw", "log_threw"}
            /\ pc[r] \in {"mark", "log"} => Doc(r).id # d

\* a pass inserted its row for a whatsapp owner without phone number,
\* sendNotification returned false without a transport call, the row is
\* unsent and the pass went on
EmptyAddressLeftRowUnsent ==
    \E r \in Runs, d \in Docs :
        /\ outcome[r][d] = "send_failed"
        /\ Row(r, d).preferred_reminder_channel = "whatsapp"
        /\ AddressOf(Row(r, d)) = Empty
        /\ Row(r, d).email # Empty
        /\ \E row \in RowsOf(r, d) : ~row.is_sent
        /\ CallsOf(r, d) = {}
        /\ SentLogsOf(r, d) = {}

(***************************************************************************)
(* C25.  In all three channels the message variant is selected by the      *)
(* same four-way keying on daysUntilExpiry: below 0 the expired text, 0    *)
(* the today text, 1 the tomorrow text, above 1 the text that names the N  *)
(* days left.  The email subject carries the `[CRITICAL] ` prefix exactly  *)
(* when the document is critical.                                          *)
(***************************************************************************)
\* the four variants, per channel, by their fixed words
MessageVariants ==
    [expired  |-> [whatsapp |-> "*EXPIRED DOCUMENT ALERT*",
                   sms |-> "expired N day(s) ago",
                   subject |-> "EXPIRED: - Action Required"],
     today    |-> [whatsapp |-> "*DOCUMENT EXPIRES TODAY*",
                   sms |-> "expires TODAY",
                   subject |-> "EXPIRES TODAY: - Immediate Action Needed"],
     tomorrow |-> [whatsapp |-> "*DOCUMENT EXPIRES TOMORROW*",
                   sms |-> "expires tomorrow",
                   subject |-> "EXPIRES TOMORROW: - Reminder"],
     future   |-> [whatsapp |-> "*DOCUMENT EXPIRY REMINDER*",
                   sms |-> "expires in N days",
                   subject |-> "Reminder: expires in N days"]]

VariantFor(days) ==
    IF days < 0 THEN "expired"
    ELSE IF days = 0 THEN "today"
    ELSE IF days = 1 THEN "tomorrow"
    ELSE "future"

FormatMessageApplied == fn.name = "formatMessage" /\ ret.done

MessageVariantKeyedFourWays ==
    FormatMessageApplied =>
        LET v == VariantFor(fn.daysUntilExpiry)
            m == ret.value
        IN  /\ m.whatsapp.text = MessageVariants[v].whatsapp
            /\ m.sms.text = MessageVariants[v].sms
            /\ m.subject.text = MessageVariants[v].subject
            /\ v = "future" =>
                  /\ m.whatsapp.days = fn.daysUntilExpiry
                  /\ m.sms.days = fn.daysUntilExpiry
                  /\ m.subject.days = fn.daysUntilExpiry
            /\ (m.subject.lead = "[CRITICAL] ") = fn.isCritical
            /\ m.subject.lead \in {"[CRITICAL] ", ""}

\* a critical document that expires today: the today text in all three
\* channels, and the prefixed subject
CriticalDocumentExpiresToday ==
    /\ FormatMessageApplied
    /\ fn.daysUntilExpiry = 0
    /\ fn.isCritical
    /\ ret.value.whatsapp.text = "*DOCUMENT EXPIRES TODAY*"
    /\ ret.value.sms.text = "expires TODAY"
    /\ ret.value.subject =
          [lead |-> "[CRITICAL] ",
           text |-> "EXPIRES TODAY: - Immediate Action Needed"]

(***************************************************************************)
(* C26.  For an active document that is due today and has a non-empty      *)
(* destination for its channel: if passes keep being triggered today and   *)
(* the transport succeeds on one of them, a sent reminder row for          *)
(* (document, today) eventually exists, and every later pass today skips   *)
(* the document.                                                           *)
(***************************************************************************)
\* pass r has delivered document d and is about to mark its row
DeliveredBy(r, d) == pc[r] = "mark" /\ Doc(r).id = d

\* a pass that met a sent row at its check did nothing for the document
LaterPassesSkip ==
    \A r \in Runs : \A d \in hadSent[r] :
        /\ CallsOf(r, d) = {}
        /\ RowsOf(r, d) = {}
        /\ outcome[r][d] \in {"already_sent", "check_threw"}

\* the day of pass 1 is over and no other pass has worked on that day
NoOtherPassThatDay ==
    /\ now > today[1]
    /\ \A r \in Runs \ {1} :
          /\ pc[r] \notin {"idle", "loading"}
          /\ pc[r] # "load_failed" => today[r] # today[1]

MarkLost(r, d) ==
    \/ pc[r] = "crashed_mark" /\ Doc(r).id = d
    \/ outcome[r][d] = "mark_threw"

HasToday(r) == pc[r] \notin {"idle", "loading", "load_failed"}

\* as stated: the day of the pass is the day on which it was triggered
PassUsesItsStartDay ==
    \A r \in Runs :
        /\ HasToday(r) => today[r] = startDay[r]
        /\ \A row \in reminders : row.run = r => row.reminder_date = startDay[r]

\* the step of pass r that ends the dedup query for document d
DedupStep(r, d) ==
    /\ pc[r] = "check" /\ Doc(r).id = d
    /\ \/ pc'[r] = "insert"
       \/ outcome'[r][d] = "already_sent"

\* amended: `today` is taken once, when the candidate query has returned,
\* and never again; the dedup query, the row and the delivery of the pass
\* all carry it, whatever the date is by then
TodayFixedWhenCandidatesLoaded ==
    /\ [][\A r \in Runs :
            /\ LoadStep(r) => today'[r] = now
            /\ ~LoadStep(r) => today'[r] = today[r]
            /\ \A d \in Docs :
                  DedupStep(r, d) =>
                      (pc'[r] = "insert") = ~SentRowExists(d, today[r])]_vars
    /\ [](\A r \in Runs :
            /\ \A row \in reminders : row.run = r => row.reminder_date = today[r]
            /\ \A i \in DOMAIN calls : calls[i].run = r => calls[i].day = today[r]
            /\ HasToday(r) => startDay[r] <= today[r] /\ today[r] <= now)

\* pass 1 took its `today` on day 0; pass 2 was triggered on day 1 and
\* inserted its row; the row pass 1 inserted after that one (it has the
\* higher id) is dated day 0
RowInsertedAfterMidnightDatedBefore ==
    \E row1 \in reminders, row2 \in reminders :
        /\ row1.run = 1 /\ row2.run = 2
        /\ startDay[2] = 1 /\ row2.reminder_date = 1
        /\ row1.id > row2.id
        /\ row1.reminder_date = 0 /\ today[1] = 0
        /\ row1.is_sent

(***************************************************************************)
(* C29.  Every pass that finds a document due with no sent row for today   *)
(* inserts exactly one new unsent row before attempting delivery,          *)
(* regardless of unsent rows already present; after k consecutive failed   *)
(* same-day passes there are exactly k unsent rows and no sent row for     *)
(* (document, today).                                                      *)
(***************************************************************************)
\* the INSERT of pass r (the statement did not fail)
InsertStep(r) == pc[r] = "insert" /\ pc'[r] = "send"

\* pass r is past its INSERT for document d
PastInsert(r, d) ==
    \/ outcome[r][d] \in {"send_failed", "sent", "mark_threw", "log_threw"}
    \/ /\ pc[r] \in {"send", "mark", "log", "crashed_send", "crashed_mark",
                     "crashed_log"}
       /\ Doc(r).id = d

\* the passes whose delivery of d failed on calendar day `day`
FailedPasses(d, day) ==
    {r \in Runs : today[r] = day /\ outcome[r][d] = "send_failed"}

UnsentRows(d, day) ==
    {row \in reminders : row.document_id = d /\ row.reminder_date = day
                         /\ ~row.is_sent}

OneUnsentRowPerAttempt ==
    /\ [][\A r \in Runs :
            InsertStep(r) =>
               \E row \in reminders' :
                  /\ row \notin reminders
                  /\ \A old \in reminders : old.id # row.id
                  /\ reminders' = reminders \cup {row}
                  /\ ~row.is_sent
                  /\ row.document_id = Doc(r).id
                  /\ row.reminder_date = today[r]]_vars
    /\ [](\A r \in Runs, d \in Docs :
            /\ Cardinality(RowsOf(r, d)) <= 1
            /\ PastInsert(r, d) /\ Exists(d) => Cardinality(RowsOf(r, d)) = 1
            /\ CallsOf(r, d) # {} => PastInsert(r, d))
    /\ [](\A d \in Docs, day \in Days :
            (/\ Exists(d)
             /\ \A r \in Runs \ FailedPasses(d, day) :
                   ~(PastInsert(r, d) /\ today[r] = day))
            => /\ Cardinality(UnsentRows(d, day)) =
                     Cardinality(FailedPasses(d, day))
               /\ SentRows(d, day) = {})

\* two passes of one day both failed to deliver the document: two unsent
\* rows and no sent row
TwoFailedPassesTwoUnsentRows ==
    \E d \in Docs, day \in Days :
        /\ FailedPasses(d, day) = Runs
        /\ \A r \in Runs : \A i \in CallsOf(r, d) : ~calls[i].ok
        /\ \A r \in Runs : CallsOf(r, d) # {}
        /\ Cardinality(UnsentRows(d, day)) = 2
        /\ SentRows(d, day) = {}

(***************************************************************************)
(* C30.  The activity log only grows, and every `reminder_sent` entry is   *)
(* written after a reminder row of the same document was marked sent in    *)
(* the same pass, one entry per marked row: the number of `reminder_sent`  *)
(* entries never exceeds the number of rows ever marked sent.              *)
(***************************************************************************)
\* the UPDATE of pass r returned, and the INSERT into activity_logs did
MarkStep(r) == pc[r] = "mark" /\ pc'[r] = "log"
LogStep(r) == pc[r] = "log" /\ outcome'[r][Doc(r).id] = "sent"

\* the row the UPDATE of pass r was aimed at is in the table, marked
OwnRowMarked(r) ==
    \E row \in reminders' :
        /\ row.id = rowId[r]
        /\ row.document_id = Doc(r).id
        /\ row.run = r
        /\ row.is_sent

LogOnlyGrows ==
    /\ Len(activity_logs') >= Len(activity_logs)
    /\ SubSeq(activity_logs', 1, Len(activity_logs)) = activity_logs

\* a pass appends one entry, and only from the position after its UPDATE
OneEntryAfterUpdate ==
    /\ \A r \in Runs :
          LogStep(r) =>
             activity_logs' = Append(activity_logs,
                 LogEntry("reminder_sent", Doc(r).user_id, Doc(r).id, r))
    /\ (\E i \in DOMAIN activity_logs' :
           /\ i > Len(activity_logs)
           /\ activity_logs'[i].action_type = "reminder_sent")
       => \E r \in Runs : LogStep(r)

SentEntryFollowsMarkedRow ==
    /\ [][LogOnlyGrows /\ OneEntryAfterUpdate]_vars
    /\ [][\A r \in Runs : MarkStep(r) => OwnRowMarked(r)]_vars
    /\ [](\A r \in Runs, d \in Docs : Cardinality(SentLogsOf(r, d)) <= 1)

\* what does hold: the UPDATE marks the row of the pass unless the
\* document, and its rows with it, was deleted after the INSERT
SentEntryFollowsMarkedRowUnlessDeleted ==
    /\ [][LogOnlyGrows /\ OneEntryAfterUpdate]_vars
    /\ [][\A r \in Runs :
            MarkStep(r) => OwnRowMarked(r) \/ ~Exists(Doc(r).id)]_vars
    /\ [](\A r \in Runs, d \in Docs : Cardinality(SentLogsOf(r, d)) <= 1)

\* a `reminder_sent` entry of a pass for a deleted document with no row
LoggedWithoutRow ==
    \E r \in Runs, d \in Docs :
        /\ SentLogsOf(r, d) # {}
        /\ ~Exists(d)
        /\ RowsOf(r, d) = {}

(***************************************************************************)
(* C31.  A delivery call that never returns for one document does not      *)
(* prevent the remaining documents of the same pass from being evaluated   *)
(* and delivered.                                                          *)
(***************************************************************************)
\* every document pass r loaded has been entered by its for-loop
AllEvaluated(r) == \A d \in LoadedIds(r) : d \in Range(evals[r])

HungDeliveryDoesNotBlockPass ==
    \A r \in Runs : (pc[r] = "hung_send") ~> AllEvaluated(r)

\* what does hold: the pass stays where it is for good
HungPassStaysHung ==
    [][\A r \in Runs : pc[r] = "hung_send" =>
          /\ pc'[r] = "hung_send"
          /\ evals'[r] = evals[r]
          /\ {i \in DOMAIN calls' : calls'[i].run = r} =
             {i \in DOMAIN calls : calls[i].run = r}]_vars

\* the delivery of the first of two due documents never returned: the
\* second has not been evaluated
SecondDocumentNeverReached ==
    \E r \in Runs :
        /\ pc[r] = "hung_send"
        /\ Len(loaded[r]) = 2 /\ idx[r] = 1
        /\ evals[r] = <<loaded[r][1].id>>
        /\ DueFor(r, loaded[r][2].id)

(***************************************************************************)
(* C32.  A pass only ever marks sent the reminder row it inserted itself   *)
(* during the same document evaluation; unsent rows left by earlier failed *)
(* or crashed attempts are never updated by any later pass and stay unsent *)
(* until their document is deleted.                                        *)
(***************************************************************************)
\* pass r is through with document d without having marked its row
LeftUnmarked(r, d) ==
    \/ outcome[r][d] \in {"send_failed", "mark_threw"}
    \/ /\ pc[r] \in {"crashed_send", "crashed_mark"}
       /\ Doc(r).id = d

OnlyOwnRowMarked ==
    /\ [][\A row \in reminders :
            IF \E n \in reminders' : n.id = row.id
            THEN \A n \in reminders' :
                    n.id = row.id =>
                       \/ n = row
                       \/ /\ n = [row EXCEPT !.is_sent = TRUE]
                          /\ ~row.is_sent
                          /\ MarkStep(row.run)
                          /\ row.id = rowId[row.run]
                          /\ row.document_id = Doc(row.run).id
            ELSE /\ Exists(row.document_id)
                 /\ documents'[row.document_id].status = "deleted"]_vars
    /\ [](\A r \in Runs, d \in Docs :
            LeftUnmarked(r, d) => \A row \in RowsOf(r, d) : ~row.is_sent)

\* the row of the failed first pass is still unsent after the second pass
\* of that day delivered and marked its own row, and both passes are over
UnsentRowLeftBesideSentRow ==
    \E d \in Docs :
        /\ pc[1] = "done" /\ pc[2] = "done"
        /\ today[1] = today[2]
        /\ outcome[1][d] = "send_failed"
        /\ outcome[2][d] = "sent"
        /\ \E row \in RowsOf(1, d) : ~row.is_sent
        /\ \E row \in RowsOf(2, d) : row.is_sent
        /\ Cardinality(RowsOf(1, d) \cup RowsOf(2, d)) = 2

(***************************************************************************)
(* C33.  Once a renew request for a document has completed, no reminder    *)
(* for that document is delivered afterwards, even by a pass that was      *)
(* already in progress when the renew happened.                            *)
(***************************************************************************)
\* sendNotification of pass r returned true in this step
DeliveryStep(r) == pc[r] = "send" /\ pc'[r] = "mark"

NoDeliveryAfterRenew ==
    [][\A r \in Runs :
          DeliveryStep(r) => documents[Doc(r).id].status # "renewed"]_vars

\* what does hold: a pass delivers for a renewed document only if it had
\* loaded the document while it was still active
DeliveryAfterRenewOnlyByEarlierPass ==
    /\ [][\A r \in Runs :
            LoadStep(r) =>
               \A d \in Docs : documents[d].status = "renewed" =>
                                  d \notin LoadedIds(r)']_vars
    /\ [](\A r \in Runs, d \in Docs :
            CallsOf(r, d) # {} => /\ d \in LoadedIds(r)
                                  /\ Row(r, d).status = "active")

\* a renewed document with a row that a pass marked sent on a delivery made
\* for it
RenewedDocumentReminded ==
    \E r \in Runs, d \in Docs :
        /\ documents[d].status = "renewed"
        /\ outcome[r][d] = "sent"

(***************************************************************************)
(* C34.  A document is active from creation and its status changes only    *)
(* through renew, to renewed; no operation ever returns a renewed document *)
(* to active, so no pass starting after the renew ever sends for it again, *)
(* even if its expiration date is later updated.                           *)
(***************************************************************************)
\* the request that completed in this step, read off the log
Logged(action, d) ==
    /\ Len(activity_logs') = Len(activity_logs) + 1
    /\ activity_logs'[Len(activity_logs')].action_type = action
    /\ activity_logs'[Len(activity_logs')].related_document_id = d

\* the row of document d appears, active
CreatedStep(d) ==
    /\ ~Exists(d)
    /\ documents'[d].status = "active"
    /\ Logged("document_created", d)

\* an active document becomes renewed, by the renew request
RenewedStep(d) ==
    /\ documents[d].status = "active"
    /\ documents'[d].status = "renewed"
    /\ Logged("document_renewed", d)

\* the log rows of document d with the given action, by position
LogRows(action, d) ==
    {i \in 1..Len(activity_logs) :
        /\ activity_logs[i].action_type = action
        /\ activity_logs[i].related_document_id = d}

\* every change of a status is a creation (to active) or a renew (active to
\* renewed), and a pass that has not started when a document is renewed
\* never calls a transport for it and never leaves a trace on it
RenewIsFinal ==
    /\ [][\A d \in Docs :
            documents'[d].status # documents[d].status =>
                CreatedStep(d) \/ RenewedStep(d)]_vars
    /\ \A r \in Runs, d \in Docs :
          []((documents[d].status = "renewed" /\ pc[r] = "idle") =>
                [](/\ CallsOf(r, d) = {}
                   /\ outcome[r][d] = "none"
                   /\ d \notin LoadedIds(r)))

\* document 1 was renewed and then, on day 0, given an expiration date that
\* is due; a pass triggered on day 1 ran to its end and left document 1
\* alone
RenewedThenUpdatedDocumentLeftAlone ==
    \E r \in Runs :
        /\ documents[1].status = "renewed"
        /\ Cardinality(LogRows("document_updated", 1)) = 1
        /\ \E i \in LogRows("document_renewed", 1),
              j \in LogRows("document_updated", 1) :
                 i < j /\ activity_logs[j].created_at = 0
        /\ startDay[r] = 1
        /\ pc[r] = "done"
        /\ ShouldSendReminder(JoinedRow(1),
               DaysUntilExpiry(documents[1].expiration_date, today[r]))
        /\ 1 \notin LoadedIds(r)
        /\ outcome[r][1] = "none"
        /\ CallsOf(r, 1) = {}

(***************************************************************************)
(* C35.  Each channel send returns true exactly when that channel's        *)
(* credentials are configured, the destination is valid, and the provider  *)
(* answered with a success status; in particular a message the provider    *)
(* accepted with a success status is always reported as true.              *)
(***************************************************************************)
\* the destination the transport would accept: a phone number that
\* formatPhoneNumber keeps, any address for email
ValidDestination(channel, to) ==
    channel = "email" \/ ~InvalidPhone(to)

SendTrueExactlyWhenAccepted ==
    (fn.name = "send" /\ ret.done) =>
        (ret.value.ok <=> /\ Configured(fn.channel, fn.env)
                          /\ ValidDestination(fn.channel, fn.to)
                          /\ SuccessStatus(fn.resp))

\* what does hold: true exactly when, in addition, the body of the answer
\* could be read as JSON
SendTrueExactlyWhenAcceptedAndBodyRead ==
    (fn.name = "send" /\ ret.done) =>
        (ret.value.ok <=> /\ Configured(fn.channel, fn.env)
                          /\ ValidDestination(fn.channel, fn.to)
                          /\ SuccessStatus(fn.resp)
                          /\ JsonBody(fn.resp))

\* a configured email send that the provider accepted resolved to false
AcceptedMessageReportedFailed ==
    /\ fn.name = "send" /\ ret.done
    /\ fn.channel = "email"
    /\ Configured("email", fn.env)
    /\ SuccessStatus(fn.resp)
    /\ ret.value.fetched
    /\ ~ret.value.ok

(***************************************************************************)
(* C36.  For any instant of a UTC calendar day, the daysUntilExpiry that   *)
(* sendTestReminder computes as ceil((expiration date at UTC midnight -    *)
(* now) / 24h) equals the whole-day difference a scheduled pass started on *)
(* that same UTC day computes, so both paths choose the same message       *)
(* variant for the same document.                                          *)
(***************************************************************************)
TestSendAgreesWithPass ==
    (fn.name = "daysUntilExpiry" /\ ret.done) =>
        /\ ret.value.pass = fn.expiration_date - fn.day
        /\ ret.value.test = ret.value.pass
        /\ ret.value.testTexts = ret.value.passTexts

\* one millisecond before midnight of the day the document expires, a test
\* send still says "expires today", as the pass of that day does
LastInstantOfExpiryDayIsToday ==
    /\ fn.name = "daysUntilExpiry" /\ ret.done
    /\ fn.expiration_date = fn.day
    /\ fn.msOfDay = MsPerDay - 1
    /\ ret.value.pass = 0
    /\ ret.value.test = 0
    /\ ret.value.testTexts.reminderType = "expires_today"
    /\ ret.value.testTexts.sms.text = "expires TODAY"
====
